---- MODULE Spec2Model ----
(***************************************************************************)
(* Request validation of the vocabulary backend: the validate middleware   *)
(* (src/utils/validation.js), the review schemas and the utility           *)
(* predicates they call.  Request payloads are JavaScript values; the      *)
(* express-validator chain runner is modelled item by item, with the       *)
(* chains of one schema interleaving at their await points.                *)
(***************************************************************************)
EXTENDS Integers, Sequences, FiniteSets, TLC

VARIABLES library, pc, schema, sent, req, inst, pos, ctxErrors, contexts, nextCalls, res,
          earlier, peer,
          uuidPc, uuidArg, uuidRet, uuidEdits,
          users, vocabularies, tags, vocabulariesTags, reviews, sqlError, now,
          nodeEnv, exitCode, uncaught, dbPc, dbRet, batches, dbError,
          sanitizePc, input, sanitized,
          apiUsage, ratePc, rateArgs, rateRet

vars == <<library, pc, schema, sent, req, inst, pos, ctxErrors, contexts, nextCalls, res,
          earlier, peer,
          uuidPc, uuidArg, uuidRet, uuidEdits,
          users, vocabularies, tags, vocabulariesTags, reviews, sqlError, now,
          nodeEnv, exitCode, uncaught, dbPc, dbRet, batches, dbError,
          sanitizePc, input, sanitized,
          apiUsage, ratePc, rateArgs, rateRet>>

validateVars == <<library, pc, schema, sent, req, inst, pos, ctxErrors, contexts, nextCalls, res,
                  earlier>>
uuidVars == <<uuidPc, uuidArg, uuidRet, uuidEdits>>

tableVars == <<users, vocabularies, tags, vocabulariesTags, reviews>>
dbVars == <<tableVars, sqlError, now>>
processVars == <<nodeEnv, exitCode, uncaught>>
initVars == <<dbPc, dbRet, batches, dbError>>
sanitizeVars == <<sanitizePc, input, sanitized>>
rateVars == <<apiUsage, ratePc, rateArgs, rateRet>>
utilityVars == <<sanitizeVars, rateVars>>

\* everything that is not the state of a validate invocation
outsideValidate == <<peer, uuidVars, utilityVars, dbVars, processVars, initVars>>
\* everything that is not the state of an isValidUUID call
outsideUUID == <<validateVars, peer, dbVars, processVars, initVars, utilityVars>>
\* everything that is not the state of the second invocation
outsidePeer == <<validateVars, uuidVars, utilityVars, dbVars, processVars, initVars>>

-----------------------------------------------------------------------------
(* Bounds of the explored inputs *)

MaxStrLen == 2
MaxQualityNum == 7
MaxPrefix == 2
MaxOver == 1
MaxEdits == 1
MaxTime == 2
MaxStatement == 3

-----------------------------------------------------------------------------
(* JavaScript values.  A number is held in tenths (35 is 3.5) so that      *)
(* fractional payloads exist; a string is a sequence of characters.        *)

Undef == [t |-> "undefined"]
Null == [t |-> "null"]
NaN == [t |-> "NaN"]
Num(k) == [t |-> "number", n |-> 10 * k]
Tenths(n) == [t |-> "number", n |-> n]
Str(s) == [t |-> "string", s |-> s]
Bool(b) == [t |-> "boolean", b |-> b]
Arr(a) == [t |-> "array", a |-> a]
Obj(f) == [t |-> "object", f |-> f]
\* a string whose characters play no part, such as a location name
Token(x) == [t |-> "token", s |-> x]

Digits == <<"0", "1", "2", "3", "4", "5", "6", "7", "8", "9">>
DigitSet == {Digits[i] : i \in 1..10}
DigitVal(c) == CHOOSE d \in 0..9 : Digits[d + 1] = c
Whitespace == {" "}

Rep(c, n) == [i \in 1..n |-> c]

Abs(n) == IF n < 0 THEN -n ELSE n

RECURSIVE NatToStr(_)
NatToStr(k) ==
    IF k < 10 THEN <<Digits[k + 1]>>
    ELSE NatToStr(k \div 10) \o <<Digits[(k % 10) + 1]>>

\* String(number) of JavaScript for a number held in tenths
NumToStr(n) ==
    (IF n < 0 THEN <<"-">> ELSE <<>>)
    \o NatToStr(Abs(n) \div 10)
    \o (IF Abs(n) % 10 = 0 THEN <<>> ELSE <<".", Digits[(Abs(n) % 10) + 1]>>)

RECURSIVE JoinComma(_)
PrimToStr(v) ==
    CASE v.t = "number" -> NumToStr(v.n)
      [] v.t = "string" -> v.s
      [] v.t = "boolean" -> IF v.b THEN <<"t", "r", "u", "e">> ELSE <<"f", "a", "l", "s", "e">>
      [] v.t = "NaN" -> <<"N", "a", "N">>
      [] OTHER -> <<>>
JoinComma(a) ==
    IF a = <<>> THEN <<>>
    ELSE IF Len(a) = 1 THEN PrimToStr(a[1])
    ELSE PrimToStr(a[1]) \o <<",">> \o JoinComma(Tail(a))

ObjectObject == <<"[", "o", "b", "j", "e", "c", "t", " ", "O", "b", "j", "e", "c", "t", "]">>

\* stringify with every falsy value, 0 included, turned into the empty string
stringifyFalsyEmpty(v) ==
    CASE v.t = "array" -> JoinComma(v.a)
      [] v.t = "object" -> ObjectObject
      [] v.t \in {"undefined", "null", "NaN"} -> <<>>
      [] v = Num(0) \/ v = Bool(FALSE) -> <<>>
      [] OTHER -> PrimToStr(v)

\* express-validator's toString: what a standard validator or sanitizer sees
stringify(v) ==
    CASE v.t = "array" -> JoinComma(v.a)
      [] v.t = "object" -> ObjectObject
      [] v.t \in {"undefined", "null", "NaN"} -> <<>>
      [] OTHER -> PrimToStr(v)

-----------------------------------------------------------------------------
(* validator.js functions used by the review schemas *)

isEmpty(str) == Len(str) = 0

\* /^[-+]?[0-9]+$/
intLeadingZeroes(str) ==
    LET body == IF Len(str) > 0 /\ str[1] \in {"-", "+"} THEN Tail(str) ELSE str
    IN Len(body) > 0 /\ \A i \in 1..Len(body) : body[i] \in DigitSet

RECURSIVE DigitsVal(_)
DigitsVal(d) ==
    IF d = <<>> THEN 0
    ELSE 10 * DigitsVal(SubSeq(d, 1, Len(d) - 1)) + DigitVal(d[Len(d)])

\* Number(str) for a string that matches the integer pattern
NumberOf(str) ==
    IF str[1] = "-" THEN -DigitsVal(Tail(str))
    ELSE IF str[1] = "+" THEN DigitsVal(Tail(str))
    ELSE DigitsVal(str)

NoBound == -1000000

isInt(str, min, max) ==
    /\ intLeadingZeroes(str)
    /\ (min = NoBound \/ NumberOf(str) >= min)
    /\ (max = NoBound \/ NumberOf(str) <= max)

RECURSIVE SkipSpace(_)
SkipSpace(str) ==
    IF Len(str) > 0 /\ str[1] \in Whitespace THEN SkipSpace(Tail(str)) ELSE str

RECURSIVE DigitPrefix(_)
DigitPrefix(str) ==
    IF Len(str) > 0 /\ str[1] \in DigitSet THEN <<str[1]>> \o DigitPrefix(Tail(str)) ELSE <<>>

\* toInt(str) is parseInt(str, 10)
toInt(str) ==
    LET s == SkipSpace(str)
        neg == Len(s) > 0 /\ s[1] = "-"
        rest == IF Len(s) > 0 /\ s[1] \in {"-", "+"} THEN Tail(s) ELSE s
        d == DigitPrefix(rest)
    IN IF d = <<>> THEN NaN
       ELSE Num(IF neg THEN -DigitsVal(d) ELSE DigitsVal(d))

\* isLength(str, {min, max}) on strings without surrogate pairs
isLength(str, min, max) ==
    /\ Len(str) >= min
    /\ (max = NoBound \/ Len(str) <= max)

RECURSIVE SkipSpaceEnd(_)
SkipSpaceEnd(str) ==
    IF Len(str) > 0 /\ str[Len(str)] \in Whitespace
    THEN SkipSpaceEnd(SubSeq(str, 1, Len(str) - 1))
    ELSE str

trim(str) == SkipSpaceEnd(SkipSpace(str))

\* q.replace(/[<>]/g, '')
removeAngleBrackets(str) == SelectSeq(str, LAMBDA ch : ch \notin {"<", ">"})

-----------------------------------------------------------------------------
(* validator.js functions used by registerSchema, on ASCII strings *)

LowerLetters ==
    <<"a", "b", "c", "d", "e", "f", "g", "h", "i", "j", "k", "l", "m",
      "n", "o", "p", "q", "r", "s", "t", "u", "v", "w", "x", "y", "z">>
UpperLetters ==
    <<"A", "B", "C", "D", "E", "F", "G", "H", "I", "J", "K", "L", "M",
      "N", "O", "P", "Q", "R", "S", "T", "U", "V", "W", "X", "Y", "Z">>

LowerCase == {LowerLetters[i] : i \in 1..26}
UpperCase == {UpperLetters[i] : i \in 1..26}
Letters == LowerCase \cup UpperCase

\* String.prototype.toLowerCase
toLowerCase(str) ==
    [i \in 1..Len(str) |->
        IF str[i] \in UpperCase
        THEN LowerLetters[CHOOSE k \in 1..26 : UpperLetters[k] = str[i]]
        ELSE str[i]]

Includes(str, chars) == \E i \in 1..Len(str) : str[i] \in chars

\* the characters of [@$!%*?&]
PasswordSpecial == {"@", "$", "!", "%", "*", "?", "&"}

\* /^(?=.*[a-z])(?=.*[A-Z])(?=.*\d)(?=.*[@$!%*?&])[A-Za-z\d@$!%*?&]{8,}$/
passwordRegex(str) ==
    /\ Includes(str, LowerCase)
    /\ Includes(str, UpperCase)
    /\ Includes(str, DigitSet)
    /\ Includes(str, PasswordSpecial)
    /\ Len(str) >= 8
    /\ \A i \in 1..Len(str) : str[i] \in Letters \cup DigitSet \cup PasswordSpecial

\* /^[\p{L}\s'-]+$/u
nameRegex(str) ==
    /\ Len(str) >= 1
    /\ \A i \in 1..Len(str) : str[i] \in Letters \cup Whitespace \cup {"'", "-"}

\* /\s{2,}/
consecutiveSpaces(str) ==
    \E i \in 1..(Len(str) - 1) : str[i] \in Whitespace /\ str[i + 1] \in Whitespace

RECURSIVE Split(_, _)

\* the part in front of the first c, at place i, and the parts behind it
SplitAt(str, c, i) == <<SubSeq(str, 1, i - 1)>> \o Split(SubSeq(str, i + 1, Len(str)), c)

\* str.split(c)
Split(str, c) ==
    IF \A i \in 1..Len(str) : str[i] # c THEN <<str>>
    ELSE SplitAt(str, c, CHOOSE j \in 1..Len(str) :
                            str[j] = c /\ \A k \in 1..(j - 1) : str[k] # c)

\* parts = str.split('@'); domain = parts.pop(); user = parts.join('@')
LastAt(str) ==
    IF \E i \in 1..Len(str) : str[i] = "@"
    THEN CHOOSE i \in 1..Len(str) : str[i] = "@" /\ \A k \in (i + 1)..Len(str) : str[k] # "@"
    ELSE 0
UserOf(str) == SubSeq(str, 1, LastAt(str) - 1)
DomainOf(str) == SubSeq(str, LastAt(str) + 1, Len(str))

\* the checks of isFQDN on parts = str.split('.'), whose last part is the tld
validParts(parts, tld) ==
    /\ Len(parts) >= 2
    /\ Len(tld) >= 2
    /\ \A i \in 1..Len(tld) : tld[i] \in Letters
    /\ \A p \in 1..Len(parts) :
          /\ Len(parts[p]) >= 1
          /\ Len(parts[p]) <= 63
          /\ \A i \in 1..Len(parts[p]) : parts[p][i] \in Letters \cup DigitSet \cup {"-"}
          /\ parts[p][1] # "-"
          /\ parts[p][Len(parts[p])] # "-"

lastPart(parts) == validParts(parts, parts[Len(parts)])

\* isFQDN(domain) with the default options
isFQDN(domain) == lastPart(Split(domain, "."))

\* the characters of the user part's pattern but for the grave accent, which no
\* input holds
EmailUserChars ==
    Letters \cup DigitSet
    \cup {"!", "#", "$", "%", "&", "'", "*", "+", "-", "/", "=", "?", "^", "_", "{", "|", "}", "~"}

\* the checks of isEmail on user_parts = user.split('.')
validUserParts(userParts) ==
    \A p \in 1..Len(userParts) :
        /\ Len(userParts[p]) >= 1
        /\ \A i \in 1..Len(userParts[p]) : userParts[p][i] \in EmailUserChars

\* the checks of isEmail on the user and the domain
validUserAndDomain(user, domain) ==
    /\ Len(user) <= 64
    /\ Len(domain) <= 254
    /\ isFQDN(domain)
    /\ validUserParts(Split(user, "."))

\* isEmail(str) with the default options, for a user part that is not quoted
isEmail(str) == validUserAndDomain(UserOf(str), DomainOf(str))

GmailCom == <<"g", "m", "a", "i", "l", ".", "c", "o", "m">>
GooglemailCom == <<"g", "o", "o", "g", "l", "e", "m", "a", "i", "l", ".", "c", "o", "m">>

\* a gmail address: the user part without its dots
normalizeGmail(gmailUser) ==
    IF gmailUser = <<>> THEN Bool(FALSE)
    ELSE Str(toLowerCase(gmailUser) \o <<"@">> \o GmailCom)

\* the user part and the domain in lower case; a gmail user part loses what
\* follows a plus sign
normalizeParts(user, domain) ==
    IF domain \in {GmailCom, GooglemailCom}
    THEN normalizeGmail(SelectSeq(Split(user, "+")[1], LAMBDA ch : ch # "."))
    ELSE Str(toLowerCase(user) \o <<"@">> \o domain)

\* normalizeEmail(email) with the default options; the other providers that
\* have rules of their own (icloud, outlook, yahoo, yandex) are not among the inputs
normalizeEmail(str) == normalizeParts(UserOf(str), toLowerCase(DomainOf(str)))

-----------------------------------------------------------------------------
(* isValidUUID *)

HexLower == {"a", "b", "c", "d", "e", "f"}
HexUpper == {"A", "B", "C", "D", "E", "F"}

\* a character class of the pattern under the i flag
Hex == DigitSet \cup HexLower \cup HexUpper
Dash == {"-"}
Four == {"4"}
Variant == {"8", "9", "a", "b", "A", "B"}

\* the pattern of a UUID of any version and variant
uuidAnyVersionRegex ==
    <<[cls |-> Hex, n |-> 8], [cls |-> Dash, n |-> 1],
      [cls |-> Hex, n |-> 4], [cls |-> Dash, n |-> 1],
      [cls |-> Hex, n |-> 4], [cls |-> Dash, n |-> 1],
      [cls |-> Hex, n |-> 4], [cls |-> Dash, n |-> 1],
      [cls |-> Hex, n |-> 12]>>

\* /^[0-9a-f]{8}-[0-9a-f]{4}-4[0-9a-f]{3}-[89ab][0-9a-f]{3}-[0-9a-f]{12}$/i
uuidV4Regex ==
    <<[cls |-> Hex, n |-> 8], [cls |-> Dash, n |-> 1],
      [cls |-> Hex, n |-> 4], [cls |-> Dash, n |-> 1],
      [cls |-> Four, n |-> 1], [cls |-> Hex, n |-> 3], [cls |-> Dash, n |-> 1],
      [cls |-> Variant, n |-> 1], [cls |-> Hex, n |-> 3], [cls |-> Dash, n |-> 1],
      [cls |-> Hex, n |-> 12]>>

\* match an anchored pattern made of fixed-length character-class pieces
RECURSIVE RegexTest(_, _)
RegexTest(pattern, str) ==
    IF pattern = <<>> THEN str = <<>>
    ELSE LET p == Head(pattern)
         IN /\ Len(str) >= p.n
            /\ \A i \in 1..p.n : str[i] \in p.cls
            /\ RegexTest(Tail(pattern), SubSeq(str, p.n + 1, Len(str)))

isValidUUID(uuid) ==
    IF uuid.t # "string" THEN FALSE
    ELSE RegexTest(uuidV4Regex, uuid.s)

-----------------------------------------------------------------------------
(* Functions and patterns used by the vocabulary, tag, query and password *)
(* schemas, on ASCII strings                                              *)

\* String.prototype.toUpperCase
toUpperCase(str) ==
    [i \in 1..Len(str) |->
        IF str[i] \in LowerCase
        THEN UpperLetters[CHOOSE k \in 1..26 : LowerLetters[k] = str[i]]
        ELSE str[i]]

\* word.charAt(0).toUpperCase() + word.slice(1).toLowerCase()
capitalize(word) ==
    IF word = <<>> THEN <<>>
    ELSE toUpperCase(<<word[1]>>) \o toLowerCase(SubSeq(word, 2, Len(word)))

\* /^[a-zA-Z\s'-]+$/
wordRegex(str) ==
    /\ Len(str) >= 1
    /\ \A i \in 1..Len(str) : str[i] \in Letters \cup Whitespace \cup {"'", "-"}

\* /^[a-zA-Z0-9\s\-_]+$/
tagNameRegex(str) ==
    /\ Len(str) >= 1
    /\ \A i \in 1..Len(str) : str[i] \in Letters \cup DigitSet \cup Whitespace \cup {"-", "_"}

\* /^#[0-9A-Fa-f]{6}$/
colorRegex(str) == RegexTest(<<[cls |-> {"#"}, n |-> 1], [cls |-> Hex, n |-> 6]>>, str)

\* /^\/[^\/]+\/$/
pronunciationRegex(str) ==
    /\ Len(str) >= 3
    /\ str[1] = "/"
    /\ str[Len(str)] = "/"
    /\ \A i \in 2..(Len(str) - 1) : str[i] # "/"

\* /^(?=.*[a-z])(?=.*[A-Z])(?=.*\d)/, the pattern of newPassword with the
\* escapes of the document it is kept in undone
strengthRegex(str) ==
    /\ Includes(str, LowerCase)
    /\ Includes(str, UpperCase)
    /\ Includes(str, DigitSet)

\* str.indexOf(sub) counted from 1, 0 when sub does not occur
IndexOf(str, sub) ==
    LET at(i) == SubSeq(str, i, i + Len(sub) - 1) = sub
        places == {i \in 1..(Len(str) - Len(sub) + 1) : at(i)}
    IN IF places = {} THEN 0
       ELSE CHOOSE i \in places : \A k \in places : i <= k

\* String.prototype.includes
includesString(str, sub) == IndexOf(str, sub) # 0

Noun == <<"n", "o", "u", "n">>
Verb == <<"v", "e", "r", "b">>
Adjective == <<"a", "d", "j", "e", "c", "t", "i", "v", "e">>
Adverb == <<"a", "d", "v", "e", "r", "b">>
Pronoun == <<"p", "r", "o", "n", "o", "u", "n">>
Preposition == <<"p", "r", "e", "p", "o", "s", "i", "t", "i", "o", "n">>
Conjunction == <<"c", "o", "n", "j", "u", "n", "c", "t", "i", "o", "n">>
Interjection == <<"i", "n", "t", "e", "r", "j", "e", "c", "t", "i", "o", "n">>
Determiner == <<"d", "e", "t", "e", "r", "m", "i", "n", "e", "r">>
Phrase == <<"p", "h", "r", "a", "s", "e">>

partsOfSpeech ==
    {Noun, Verb, Adjective, Adverb, Pronoun, Preposition, Conjunction, Interjection,
     Determiner, Phrase}

CreatedAt == <<"c", "r", "e", "a", "t", "e", "d", "A", "t">>
UpdatedAt == <<"u", "p", "d", "a", "t", "e", "d", "A", "t">>
Word == <<"w", "o", "r", "d">>
Difficulty == <<"d", "i", "f", "f", "i", "c", "u", "l", "t", "y">>
Asc == <<"a", "s", "c">>
Desc == <<"d", "e", "s", "c">>

sortFields == {CreatedAt, UpdatedAt, Word, Difficulty}
sortOrders == {Asc, Desc}

\* isIn(str, list) for a list of strings
isIn(str, list) == str \in list

Http == <<"h", "t", "t", "p">>
Https == <<"h", "t", "t", "p", "s">>

\* the port of an authority: none, or digits that denote 1 to 65535
validPort(port) ==
    \/ port = <<>>
    \/ /\ \A i \in 1..Len(port) : port[i] \in DigitSet
       /\ DigitsVal(port) > 0
       /\ DigitsVal(port) <= 65535

\* host and port of a hostname cut at its first colon, colon = 0 when it has none
validHostPort(hostname, colon) ==
    /\ isFQDN(IF colon = 0 THEN hostname ELSE SubSeq(hostname, 1, colon - 1))
    /\ colon # 0 => validPort(SubSeq(hostname, colon + 1, Len(hostname)))

validHostname(hostname) == validHostPort(hostname, IndexOf(hostname, <<":">>))

\* user:password@ in front of the hostname, at = 0 when there is none
validAuthentication(authority, at) ==
    /\ at # 0 => /\ at > 1
                 /\ Len(Split(SubSeq(authority, 1, at - 1), ":")) <= 2
    /\ validHostname(SubSeq(authority, at + 1, Len(authority)))

validAuthority(authority) == validAuthentication(authority, IndexOf(authority, <<"@">>))

\* the protocol in front of ://, sep = 0 when there is none, and what follows
\* up to the first slash
validLocation(location, sep) ==
    /\ sep # 0
    /\ toLowerCase(SubSeq(location, 1, sep - 1)) \in {Http, Https}
    /\ sep + 2 < Len(location)
    /\ validAuthority(Split(SubSeq(location, sep + 3, Len(location)), "/")[1])

\* the url without its fragment and its query
isURLLocation(location) == validLocation(location, IndexOf(location, <<":", "/", "/">>))

\* isURL(url, { protocols: ['http', 'https'], require_protocol: true }) for a host
\* that is a domain name: the fragment and the query are not looked at, the
\* protocol is one of the two, the authority may hold user:password@ and :port,
\* the host is a fully qualified domain name
isURL(url) ==
    /\ url # <<>>
    /\ ~Includes(url, Whitespace \cup {"<", ">"})
    /\ isURLLocation(Split(Split(url, "#")[1], "?")[1])

-----------------------------------------------------------------------------
(* Identifiers used as inputs *)

\* '550e8400-e29b-41d4-a716-446655440000', the documented valid example
DocUUID ==
    <<"5", "5", "0", "e", "8", "4", "0", "0", "-", "e", "2", "9", "b", "-",
      "4", "1", "d", "4", "-", "a", "7", "1", "6", "-",
      "4", "4", "6", "6", "5", "5", "4", "4", "0", "0", "0", "0">>

UpperUUID ==
    <<"5", "5", "0", "E", "8", "4", "0", "0", "-", "E", "2", "9", "B", "-",
      "4", "1", "D", "4", "-", "B", "7", "1", "6", "-",
      "4", "4", "6", "6", "5", "5", "4", "4", "0", "0", "0", "0">>

\* '550e8400-e29b-41d4-a716-44665544000', the documented example with a digit missing
ShortUUID == SubSeq(DocUUID, 1, 35)

NotAUUID == <<"n", "o", "t", "-", "a", "-", "u", "u", "i", "d">>

ReplaceAt(str, i, c) == [str EXCEPT ![i] = c]
DropAt(str, i) == SubSeq(str, 1, i - 1) \o SubSeq(str, i + 1, Len(str))
InsertAt(str, i, c) == SubSeq(str, 1, i - 1) \o <<c>> \o SubSeq(str, i, Len(str))

EditChars == {"0", "4", "9", "b", "C", "g", "-"}

UuidArgs ==
    {Str(DocUUID), Str(UpperUUID), Str(ShortUUID), Str(NotAUUID), Str(<<>>),
     Undef, Null, Num(4), Arr(<<Str(DocUUID)>>), Obj(<<>>)}

-----------------------------------------------------------------------------
(* The utility predicate called on its own *)

EditUUID ==
    /\ uuidPc = "input"
    /\ uuidArg.t = "string"
    /\ uuidEdits < MaxEdits
    /\ \E c \in EditChars :
          \/ \E i \in 1..Len(uuidArg.s) : uuidArg' = Str(ReplaceAt(uuidArg.s, i, c))
          \/ \E i \in 1..(Len(uuidArg.s) + 1) : uuidArg' = Str(InsertAt(uuidArg.s, i, c))
          \/ \E i \in 1..Len(uuidArg.s) : uuidArg' = Str(DropAt(uuidArg.s, i))
    /\ uuidEdits' = uuidEdits + 1
    /\ UNCHANGED <<uuidPc, uuidRet>>
    /\ UNCHANGED outsideUUID

CallIsValidUUID ==
    /\ uuidPc = "input"
    /\ uuidRet' = isValidUUID(uuidArg)
    /\ uuidPc' = "returned"
    /\ UNCHANGED <<uuidArg, uuidEdits>>
    /\ UNCHANGED outsideUUID

-----------------------------------------------------------------------------
(* Objects and request locations *)

Get(o, k) == IF o.t = "object" /\ k \in DOMAIN o.f THEN o.f[k] ELSE Undef

\* assignment into an object held by reference; a missing location is left alone
SetField(o, k, v) ==
    IF o.t = "object"
    THEN Obj([x \in (DOMAIN o.f) \cup {k} |-> IF x = k THEN v ELSE o.f[x]])
    ELSE o

\* lodash set below the top level: a non-object on the way is replaced by an object
SetNested(o, k, v) ==
    IF o.t = "object" THEN SetField(o, k, v) ELSE Obj([x \in {k} |-> v])

NoIndex == -1

\* the path of a field instance: 'quality' or 'reviews[2].quality'
Path(field, idx, sub) == [t |-> "path", field |-> field, idx |-> idx, sub |-> sub]

-----------------------------------------------------------------------------
(* Validation chains: body(...), query(...), param(...) with their items *)

NoMsg == ""
InvalidValue == "Invalid value"

Validator(name, negated, min, max, msg) ==
    [kind |-> "standard", name |-> name, negated |-> negated,
     min |-> min, max |-> max, msg |-> msg, throws |-> NoMsg]

Custom(name, min, max, msg, throws) ==
    [kind |-> "custom", name |-> name, negated |-> FALSE,
     min |-> min, max |-> max, msg |-> msg, throws |-> throws]

Sanitizer(name) ==
    [kind |-> "sanitizer", name |-> name, negated |-> FALSE,
     min |-> NoBound, max |-> NoBound, msg |-> NoMsg, throws |-> NoMsg]

notEmpty(msg) == Validator("isEmpty", TRUE, NoBound, NoBound, msg)

Chain(location, field, sub, optional, items) ==
    [location |-> location, field |-> field, wildcard |-> sub # "",
     sub |-> sub, optional |-> optional, values |-> "undefined",
     items |-> items, groups |-> <<>>]

\* a chain with optional({ nullable: true, checkFalsy: true })
ChainOptionalFalsy(location, field, items) ==
    [location |-> location, field |-> field, wildcard |-> FALSE,
     sub |-> "", optional |-> TRUE, values |-> "falsy",
     items |-> items, groups |-> <<>>]

\* a chain with optional({ nullable: true })
ChainOptionalNullable(location, field, items) ==
    [location |-> location, field |-> field, wildcard |-> FALSE,
     sub |-> "", optional |-> TRUE, values |-> "null",
     items |-> items, groups |-> <<>>]

\* .default(value)
Default(value) ==
    [kind |-> "sanitizer", name |-> "default", negated |-> FALSE,
     min |-> NoBound, max |-> NoBound, msg |-> NoMsg, throws |-> NoMsg, arg |-> value]

\* oneOf(groups): passes when the chain of at least one group finds no error
OneOf(groups) ==
    [location |-> "body", field |-> "", wildcard |-> FALSE, sub |-> "", optional |-> FALSE,
     values |-> "undefined",
     items |-> <<[kind |-> "oneOf", name |-> "oneOf", negated |-> FALSE,
                  min |-> NoBound, max |-> NoBound, msg |-> NoMsg, throws |-> NoMsg]>>,
     groups |-> groups]

QualityMin == 0
QualityMax == 5
BatchMin == 1
BatchMax == 50

reviewSchema ==
    <<Chain("body", "quality", "", FALSE,
            <<notEmpty("Quality rating is required"),
              Validator("isInt", FALSE, QualityMin, QualityMax,
                        "Quality must be an integer between 0-5 (0=forgot, 5=perfect recall)"),
              Sanitizer("toInt")>>),
      Chain("body", "vocabularyId", "", FALSE,
            <<notEmpty("Vocabulary ID is required"),
              Custom("isValidUUID", NoBound, NoBound, NoMsg, "Invalid vocabulary ID format")>>)>>

\* the batch schema with a quality range wider than the single-review schema's
batchReviewSchemaWideQuality ==
    <<Chain("body", "reviews", "", FALSE,
            <<Custom("isArray", BatchMin, BatchMax,
                     "Must provide 1-50 reviews for batch submission", NoMsg)>>),
      Chain("body", "reviews", "vocabularyId", FALSE,
            <<notEmpty(NoMsg),
              Custom("isValidUUID", NoBound, NoBound, NoMsg, "Invalid vocabulary ID")>>),
      Chain("body", "reviews", "quality", FALSE,
            <<Validator("isInt", FALSE, QualityMin, QualityMax + 1, NoMsg),
              Sanitizer("toInt")>>)>>

batchReviewSchema ==
    <<Chain("body", "reviews", "", FALSE,
            <<Custom("isArray", BatchMin, BatchMax,
                     "Must provide 1-50 reviews for batch submission", NoMsg)>>),
      Chain("body", "reviews", "vocabularyId", FALSE,
            <<notEmpty(NoMsg),
              Custom("isValidUUID", NoBound, NoBound, NoMsg, "Invalid vocabulary ID")>>),
      Chain("body", "reviews", "quality", FALSE,
            <<Validator("isInt", FALSE, QualityMin, QualityMax, NoMsg),
              Sanitizer("toInt")>>)>>

uuidParamSchema ==
    <<Chain("params", "id", "", FALSE,
            <<notEmpty("ID is required"),
              Custom("isValidUUID", NoBound, NoBound, NoMsg, "Invalid UUID format")>>)>>

SearchMin == 1
SearchMax == 100

searchSchema ==
    <<Chain("query", "q", "", TRUE,
            <<Sanitizer("trim"),
              Validator("isLength", FALSE, SearchMin, SearchMax,
                        "Search query must be 1-100 characters"),
              Custom("removeAngleBrackets", NoBound, NoBound, NoMsg,
                     "q.replace is not a function")>>)>>

\* a validations array built by a route: the id is taken from the path or from the query
idFromEitherSchema ==
    <<OneOf(<<uuidParamSchema[1],
              Chain("query", "id", "", FALSE,
                    <<Custom("isValidUUID", NoBound, NoBound, NoMsg, "Invalid UUID format")>>)>>)>>

PasswordMin == 8
PasswordMax == 128
EmailMax == 255
NameMin == 2
NameMax == 50

registerSchema ==
    <<Chain("body", "email", "", FALSE,
            <<Sanitizer("trim"),
              notEmpty("Email is required"),
              Validator("isEmail", FALSE, NoBound, NoBound, "Invalid email format"),
              Sanitizer("normalizeEmail"),
              Validator("isLength", FALSE, 0, EmailMax, "Email max length"),
              Custom("noSpace", NoBound, NoBound, NoMsg, "Email must not contain spaces")>>),
      Chain("body", "password", "", FALSE,
            <<notEmpty("Password is required"),
              Validator("isLength", FALSE, PasswordMin, PasswordMax, "Password length"),
              Validator("passwordRegex", FALSE, NoBound, NoBound, "Password complexity"),
              Custom("weakPasswords", NoBound, NoBound, NoMsg, "Password too weak")>>),
      ChainOptionalFalsy("body", "name",
            <<Sanitizer("trim"),
              Validator("isLength", FALSE, NameMin, NameMax, "Name length"),
              Validator("nameRegex", FALSE, NoBound, NoBound, "Name character set"),
              Custom("consecutiveSpaces", NoBound, NoBound, NoMsg,
                     "Name must not contain consecutive spaces")>>)>>

changePasswordSchema ==
    <<Chain("body", "currentPassword", "", FALSE,
            <<notEmpty("Current password is required")>>),
      Chain("body", "newPassword", "", FALSE,
            <<notEmpty("New password is required"),
              Validator("isLength", FALSE, PasswordMin, PasswordMax,
                        "Password must be 8-128 characters"),
              Validator("strengthRegex", FALSE, NoBound, NoBound,
                        "Password must contain uppercase, lowercase, and number"),
              Custom("differsFromCurrent", NoBound, NoBound, NoMsg,
                     "New password must be different from current password")>>)>>

WordMin == 1
WordMax == 100
DefinitionMin == 5
DefinitionMax == 1000
ExampleMin == 5
ExampleMax == 500
PronunciationMax == 100
DifficultyMin == 1
DifficultyMax == 5
UrlMax == 500
TagsMax == 10

vocabSchema ==
    <<Chain("body", "word", "", FALSE,
            <<Sanitizer("trim"),
              notEmpty("Word is required"),
              Validator("isLength", FALSE, WordMin, WordMax, "Word must be 1-100 characters"),
              Validator("wordRegex", FALSE, NoBound, NoBound,
                        "Word can only contain letters, spaces, hyphens, and apostrophes"),
              Custom("capitalize", NoBound, NoBound, NoMsg,
                     "word.charAt is not a function")>>),
      Chain("body", "definition", "", FALSE,
            <<Sanitizer("trim"),
              notEmpty("Definition is required"),
              Validator("isLength", FALSE, DefinitionMin, DefinitionMax,
                        "Definition must be 5-1000 characters"),
              Custom("startsUppercase", NoBound, NoBound, NoMsg,
                     "Definition should start with an uppercase letter")>>),
      ChainOptionalFalsy("body", "example",
            <<Sanitizer("trim"),
              Validator("isLength", FALSE, ExampleMin, ExampleMax,
                        "Example must be 5-500 characters"),
              Custom("containsWord", NoBound, NoBound, NoMsg,
                     "Example should contain the vocabulary word")>>),
      ChainOptionalFalsy("body", "pronunciation",
            <<Sanitizer("trim"),
              Validator("pronunciationRegex", FALSE, NoBound, NoBound,
                        "Pronunciation must be in IPA format"),
              Validator("isLength", FALSE, 0, PronunciationMax, "Pronunciation too long")>>),
      ChainOptionalFalsy("body", "partOfSpeech",
            <<Sanitizer("trim"),
              Sanitizer("toLowerCase"),
              Validator("isInPartsOfSpeech", FALSE, NoBound, NoBound,
                        "Invalid part of speech")>>),
      ChainOptionalNullable("body", "difficulty",
            <<Validator("isInt", FALSE, DifficultyMin, DifficultyMax,
                        "Difficulty must be an integer between 1-5 (1=easiest, 5=hardest)"),
              Sanitizer("toInt")>>),
      ChainOptionalFalsy("body", "imageUrl",
            <<Sanitizer("trim"),
              Validator("isURL", FALSE, NoBound, NoBound,
                        "Image URL must be a valid HTTP/HTTPS URL"),
              Validator("isLength", FALSE, 0, UrlMax, "Image URL too long")>>),
      ChainOptionalFalsy("body", "audioUrl",
            <<Sanitizer("trim"),
              Validator("isURL", FALSE, NoBound, NoBound,
                        "Audio URL must be a valid HTTP/HTTPS URL"),
              Validator("isLength", FALSE, 0, UrlMax, "Audio URL too long")>>),
      Chain("body", "tags", "", TRUE,
            <<Custom("isArray", NoBound, NoBound, "Tags must be an array", NoMsg),
              Custom("validTags", NoBound, TagsMax, NoMsg, "Invalid tags")>>)>>

TagNameMin == 1
TagNameMax == 30

tagSchema ==
    <<Chain("body", "name", "", FALSE,
            <<Sanitizer("trim"),
              notEmpty("Tag name is required"),
              Validator("isLength", FALSE, TagNameMin, TagNameMax,
                        "Tag name must be 1-30 characters"),
              Validator("tagNameRegex", FALSE, NoBound, NoBound,
                        "Tag name can only contain letters, numbers, spaces, hyphens, and underscores"),
              Custom("toUpperCase", NoBound, NoBound, NoMsg,
                     "name.toUpperCase is not a function")>>),
      ChainOptionalFalsy("body", "color",
            <<Sanitizer("trim"),
              Validator("colorRegex", FALSE, NoBound, NoBound,
                        "Color must be a valid 6-digit hex code (e.g., #3B82F6)"),
              Custom("toUpperCase", NoBound, NoBound, NoMsg,
                     "color.toUpperCase is not a function")>>)>>

PageMin == 1
PageDefault == 1
LimitMin == 1
LimitMax == 100
LimitDefault == 20

paginationSchema ==
    <<Chain("query", "page", "", TRUE,
            <<Validator("isInt", FALSE, PageMin, NoBound, "Page must be a positive integer"),
              Sanitizer("toInt"),
              Default(Num(PageDefault))>>),
      Chain("query", "limit", "", TRUE,
            <<Validator("isInt", FALSE, LimitMin, LimitMax, "Limit must be between 1-100"),
              Sanitizer("toInt"),
              Default(Num(LimitDefault))>>),
      Chain("query", "sortBy", "", TRUE,
            <<Validator("isInSortFields", FALSE, NoBound, NoBound, "Invalid sort field")>>),
      Chain("query", "sortOrder", "", TRUE,
            <<Validator("isInSortOrders", FALSE, NoBound, NoBound,
                        "Sort order must be asc or desc"),
              Default(Str(Desc))>>)>>

SchemaNames ==
    {"reviewSchema", "batchReviewSchema", "uuidParamSchema", "searchSchema", "idFromEitherSchema"}

Chains(name) ==
    CASE name = "reviewSchema" -> reviewSchema
      [] name = "batchReviewSchema" -> batchReviewSchema
      [] name = "uuidParamSchema" -> uuidParamSchema
      [] name = "searchSchema" -> searchSchema
      [] name = "idFromEitherSchema" -> idFromEitherSchema
      [] name = "registerSchema" -> registerSchema
      [] name = "changePasswordSchema" -> changePasswordSchema
      [] name = "vocabSchema" -> vocabSchema
      [] name = "tagSchema" -> tagSchema
      [] name = "paginationSchema" -> paginationSchema

-----------------------------------------------------------------------------
(* The chain runner of express-validator *)

\* the field instances a chain works on, selected when its run starts
selectFields(chain, request) ==
    LET top == Get(request[chain.location], chain.field)
    IN IF chain.groups # <<>> THEN <<>>
       ELSE IF ~chain.wildcard
       THEN <<[path |-> Path(chain.field, NoIndex, ""), value |-> top]>>
       ELSE IF top.t = "array"
            THEN [i \in 1..Len(top.a) |->
                    [path |-> Path(chain.field, i - 1, chain.sub),
                     value |-> Get(top.a[i], chain.sub)]]
            ELSE <<>>

standardValidator(item, str) ==
    CASE item.name = "isEmpty" -> isEmpty(str)
      [] item.name = "isInt" -> isInt(str, item.min, item.max)
      [] item.name = "isLength" -> isLength(str, item.min, item.max)
      [] item.name = "isEmail" -> isEmail(str)
      [] item.name = "passwordRegex" -> passwordRegex(str)
      [] item.name = "nameRegex" -> nameRegex(str)
      [] item.name = "strengthRegex" -> strengthRegex(str)
      [] item.name = "wordRegex" -> wordRegex(str)
      [] item.name = "tagNameRegex" -> tagNameRegex(str)
      [] item.name = "colorRegex" -> colorRegex(str)
      [] item.name = "pronunciationRegex" -> pronunciationRegex(str)
      [] item.name = "isInPartsOfSpeech" -> isIn(str, partsOfSpeech)
      [] item.name = "isInSortFields" -> isIn(str, sortFields)
      [] item.name = "isInSortOrders" -> isIn(str, sortOrders)
      [] item.name = "isURL" -> isURL(str)

\* a standard validator checks each element of an array value on its own
RECURSIVE standardErrors(_, _)
standardErrors(item, values) ==
    IF values = <<>> THEN <<>>
    ELSE LET result == standardValidator(item, stringify(Head(values)))
             failed == IF item.negated THEN result ELSE ~result
         IN (IF failed THEN <<[msg |-> item.msg, value |-> Head(values)]>> ELSE <<>>)
            \o standardErrors(item, Tail(values))

\* isArray with the upper limit taken as exclusive
isArrayBelowMax(value, min, max) ==
    /\ value.t = "array"
    /\ (min = NoBound \/ Len(value.a) >= min)
    /\ (max = NoBound \/ Len(value.a) < max)

isArray(value, min, max) ==
    /\ value.t = "array"
    /\ (min = NoBound \/ Len(value.a) >= min)
    /\ (max = NoBound \/ Len(value.a) <= max)

Password123 == <<"P", "a", "s", "s", "w", "o", "r", "d", "1", "2", "3">>
Digits12345678 == <<"1", "2", "3", "4", "5", "6", "7", "8">>
Qwerty123 == <<"Q", "w", "e", "r", "t", "y", "1", "2", "3">>
Admin123 == <<"A", "d", "m", "i", "n", "1", "2", "3">>

weakPasswords == {Password123, Digits12345678, Qwerty123, Admin123}

\* String(value), as RegExp.prototype.test converts its argument
String(v) ==
    CASE v.t = "undefined" -> <<"u", "n", "d", "e", "f", "i", "n", "e", "d">>
      [] v.t = "null" -> <<"n", "u", "l", "l">>
      [] OTHER -> stringify(v)

\* what the custom function does with the raw value: "pass", "fail" or "throw"
customOutcome(item, value) ==
    CASE item.name = "isValidUUID" -> IF ~isValidUUID(value) THEN "throw" ELSE "pass"
      [] item.name = "isArray" -> IF isArray(value, item.min, item.max) THEN "pass" ELSE "fail"
      [] item.name = "removeAngleBrackets" ->
           IF value.t # "string" THEN "throw"
           ELSE IF removeAngleBrackets(value.s) = <<>> THEN "fail"
           ELSE "pass"
      [] item.name = "noSpace" ->
           IF value.t = "string" THEN (IF Includes(value.s, {" "}) THEN "throw" ELSE "pass")
           ELSE IF value.t = "array"
           THEN (IF \E i \in 1..Len(value.a) : value.a[i] = Str(<<" ">>)
                 THEN "throw" ELSE "pass")
           ELSE "throw"
      [] item.name = "weakPasswords" ->
           IF value.t = "string" /\ value.s \in weakPasswords THEN "throw" ELSE "pass"
      [] item.name = "consecutiveSpaces" ->
           IF consecutiveSpaces(String(value)) THEN "throw" ELSE "pass"
      [] item.name = "differsFromCurrent" ->
           IF value.t \notin {"array", "object"} /\ value = Get(req.body, "currentPassword")
           THEN "throw" ELSE "pass"
      [] item.name = "capitalize" ->
           IF value.t # "string" THEN "throw"
           ELSE IF capitalize(value.s) = <<>> THEN "fail"
           ELSE "pass"
      [] item.name = "toUpperCase" ->
           IF value.t # "string" THEN "throw"
           ELSE IF toUpperCase(value.s) = <<>> THEN "fail"
           ELSE "pass"
      [] item.name = "startsUppercase" ->
           IF value.t = "string"
           THEN (IF Len(value.s) > 0 /\ value.s[1] \in LowerCase THEN "throw" ELSE "pass")
           ELSE IF value.t = "array"
           THEN (IF Len(value.a) = 0 THEN "pass"
                 ELSE IF value.a[1].t # "string" THEN "throw"
                 ELSE IF value.a[1] # Str(toUpperCase(value.a[1].s)) THEN "throw"
                 ELSE "pass")
           ELSE "pass"
      [] item.name = "containsWord" ->
           LET word == Get(req.body, "word")
           IN IF word.t \in {"undefined", "null"} THEN "pass"
              ELSE IF word.t # "string" THEN "throw"
              ELSE IF word.s = <<>> THEN "pass"
              ELSE IF value.t # "string" THEN "throw"
              ELSE IF includesString(toLowerCase(value.s), toLowerCase(word.s)) THEN "pass"
              ELSE "throw"
      [] item.name = "validTags" ->
           IF /\ value.t = "array"
              /\ Len(value.a) <= item.max
              /\ \A i \in 1..Len(value.a) : isValidUUID(value.a[i])
           THEN "pass" ELSE "throw"

customErrors(item, value) ==
    LET outcome == customOutcome(item, value)
    IN CASE outcome = "pass" -> <<>>
         [] outcome = "fail" -> <<[msg |-> item.msg, value |-> value]>>
         [] outcome = "throw" ->
              <<[msg |-> IF item.msg # NoMsg THEN item.msg ELSE item.throws,
                 value |-> value]>>

\* the sanitizers with toBoolean where the schemas ask for toInt
standardSanitizerToBoolean(item, str) ==
    CASE item.name = "toInt" -> Bool(str \notin {<<"0">>, <<"f", "a", "l", "s", "e">>, <<>>})
      [] item.name = "trim" -> Str(trim(str))
      [] item.name = "normalizeEmail" -> normalizeEmail(str)

standardSanitizer(item, str) ==
    CASE item.name = "toInt" -> toInt(str)
      [] item.name = "trim" -> Str(trim(str))
      [] item.name = "normalizeEmail" -> normalizeEmail(str)

\* default and toLowerCase are given the value as it is, the sanitizers of
\* validator.js each element of an array as a string
sanitize(item, value) ==
    CASE item.name = "default" ->
           IF value \in {Undef, Null, NaN, Str(<<>>)} THEN item.arg ELSE value
      [] item.name = "toLowerCase" ->
           IF value.t = "string" THEN Str(toLowerCase(value.s)) ELSE value
      [] OTHER ->
           IF value.t = "array"
           THEN Arr([i \in 1..Len(value.a) |-> standardSanitizer(item, stringify(value.a[i]))])
           ELSE standardSanitizer(item, stringify(value))

\* one item of a chain applied to one field instance
runItem(item, value) ==
    CASE item.kind = "standard" ->
           [errs |-> standardErrors(item, IF value.t = "array" THEN value.a ELSE <<value>>),
            value |-> value]
      [] item.kind = "custom" -> [errs |-> customErrors(item, value), value |-> value]
      [] item.kind = "sanitizer" -> [errs |-> <<>>, value |-> sanitize(item, value)]

\* context.addError for a field
\* release 7 names the field path, release 6 names it param
fieldError(chain, path, e) ==
    IF library = 7
    THEN [type |-> "field", path |-> path,
          msg |-> IF e.msg # NoMsg THEN e.msg ELSE InvalidValue,
          value |-> e.value, location |-> Token(chain.location)]
    ELSE [param |-> path,
          msg |-> IF e.msg # NoMsg THEN e.msg ELSE InvalidValue,
          value |-> e.value, location |-> Token(chain.location)]

Truthy(v) ==
    CASE v.t \in {"undefined", "null", "NaN"} -> FALSE
      [] v.t = "string" -> v.s # <<>>
      [] v.t = "number" -> v.n # 0
      [] v.t = "boolean" -> v.b
      [] OTHER -> TRUE

\* an instance of an optional chain is skipped while its value is undefined,
\* with nullable undefined or null, with checkFalsy falsy
skipped(chain, value) ==
    /\ chain.optional
    /\ \/ value = Undef
       \/ chain.values = "null" /\ value = Null
       \/ chain.values = "falsy" /\ ~Truthy(value)

\* concatenation of a sequence of sequences, by halves
RECURSIVE Flatten(_)
Flatten(seqs) ==
    IF Len(seqs) = 0 THEN <<>>
    ELSE IF Len(seqs) = 1 THEN seqs[1]
    ELSE LET h == Len(seqs) \div 2
         IN Flatten(SubSeq(seqs, 1, h)) \o Flatten(SubSeq(seqs, h + 1, Len(seqs)))

\* the errors one item adds to the context, instance after instance
itemErrors(chain, item, instances) ==
    Flatten([i \in 1..Len(instances) |->
               LET errs == IF skipped(chain, instances[i].value) THEN <<>>
                           ELSE runItem(item, instances[i].value).errs
               IN [k \in 1..Len(errs) |-> fieldError(chain, instances[i].path, errs[k])]])

\* the errors of one chain run alone on a value, item after item
RECURSIVE chainErrors(_, _, _)
chainErrors(chain, items, value) ==
    IF items = <<>> \/ skipped(chain, value) THEN <<>>
    ELSE LET r == runItem(Head(items), value)
         IN r.errs \o chainErrors(chain, Tail(items), r.value)

\* oneOf runs each group on the request without storing anything back
groupErrors(group, request) ==
    LET errs == chainErrors(group, group.items, Get(request[group.location], group.field))
    IN [k \in 1..Len(errs) |-> fieldError(group, Path(group.field, NoIndex, ""), errs[k])]

InvalidValues == "Invalid value(s)"

\* the error that oneOf adds when no group passes: it has no path, value or location
oneOfErrors(chain, request) ==
    LET all == [g \in 1..Len(chain.groups) |-> groupErrors(chain.groups[g], request)]
    IN IF \E g \in 1..Len(all) : all[g] = <<>> THEN <<>>
       ELSE IF library = 7
            THEN <<[type |-> "alternative", msg |-> InvalidValues,
                    nestedErrors |-> Flatten(all)]>>
            ELSE <<[param |-> Token("_error"), msg |-> InvalidValues,
                    nestedErrors |-> Flatten(all)]>>

\* an instance value that differs from the request's is stored back at its path
writeBack(container, chain, instances) ==
    IF instances = <<>> THEN container
    ELSE IF ~chain.wildcard
    THEN IF Get(container, chain.field) = instances[1].value
         THEN container
         ELSE SetField(container, chain.field, instances[1].value)
    ELSE LET a == Get(container, chain.field)
         IN IF a.t = "array" /\ Len(instances) > 0
            THEN SetField(container, chain.field,
                          Arr([i \in 1..Len(a.a) |->
                                 IF Get(a.a[i], chain.sub) = instances[i].value
                                 THEN a.a[i]
                                 ELSE SetNested(a.a[i], chain.sub, instances[i].value)]))
            ELSE container

-----------------------------------------------------------------------------
(* validate(validations): the middleware *)

NoResponse == [statusCode |-> 200, jsonCalls |-> 0, body |-> Undef]
NoRequest == [body |-> Undef, query |-> Undef, params |-> Undef]

\* a second invocation of the middleware, on another request: not called yet
NoPeer ==
    [pc |-> "idle", sent |-> NoRequest, req |-> NoRequest, inst |-> <<>>, pos |-> <<>>,
     ctxErrors |-> <<>>, contexts |-> <<>>, nextCalls |-> 0, res |-> NoResponse]

\* the invocation that came before this one on the same payload: none yet
NoEarlier == [outcome |-> "none", sent |-> NoRequest]

\* Promise.race in place of Promise.all: one chain run has resolved
anySettled == \E c \in 1..Len(pos) : pos[c] = Len(Chains(schema)[c].items)

\* Promise.all over the chain runs has resolved
allSettled == \A c \in 1..Len(pos) : pos[c] = Len(Chains(schema)[c].items)

\* validationResult(req).array(): the errors of the contexts in completion order
errorsArray == Flatten([k \in 1..Len(contexts) |-> ctxErrors[contexts[k]]])

Prop(r, k) == IF k \in DOMAIN r THEN r[k] ELSE Undef
Or(a, b) == IF Truthy(a) THEN a ELSE b

\* the record with the location fixed to the request body
formatErrorBodyOnly(err) ==
    [field |-> Or(Prop(err, "path"), Prop(err, "param")),
     message |-> err.msg,
     value |-> Prop(err, "value"),
     location |-> Token("body")]

\* the record with the field name read from err.param only
formatErrorParamOnly(err) ==
    [field |-> Prop(err, "param"),
     message |-> err.msg,
     value |-> Prop(err, "value"),
     location |-> Or(Prop(err, "location"), Token("body"))]

formatError(err) ==
    [field |-> Or(Prop(err, "path"), Prop(err, "param")),
     message |-> err.msg,
     value |-> Prop(err, "value"),
     location |-> Or(Prop(err, "location"), Token("body"))]

-----------------------------------------------------------------------------
(* Requests *)

QualityChars == {"0", "5", "6", "-", "+", ".", " ", "a"}

StringsUpTo(chars, n) == UNION {[1..k -> chars] : k \in 0..n}

QualityValues ==
    {Undef, Null, Bool(TRUE), Bool(FALSE), Obj(<<>>)}
    \cup {Num(k) : k \in -1..MaxQualityNum}
    \cup {Tenths(n) : n \in {-5, 5, 35, 55}}
    \cup {Str(s) : s \in StringsUpTo(QualityChars, MaxStrLen)}
    \cup {Arr(<<>>), Arr(<<Num(3)>>), Arr(<<Num(3), Num(6)>>), Arr(<<Str(<<"5">>), Num(0)>>)}

\* DocUUID with version nibble 1, and with variant nibble c
Version1UUID == ReplaceAt(DocUUID, 15, "1")
VariantCUUID == ReplaceAt(DocUUID, 20, "c")

VocabularyIdValues ==
    {Str(DocUUID), Str(UpperUUID), Str(ShortUUID), Str(Version1UUID), Str(VariantCUUID),
     Str(NotAUUID), Str(<<>>), Undef, Null, Num(4), Arr(<<Str(DocUUID)>>)}

Present(fields) == {k \in DOMAIN fields : fields[k] # Undef}
Payload(fields) == Obj([k \in Present(fields) |-> fields[k]])

Review(vocabularyId, quality) ==
    Payload([vocabularyId |-> vocabularyId, quality |-> quality, note |-> Str(<<"a">>)])

\* every quality with a few identifiers, and every identifier with a few qualities
ReviewBodies ==
    {Review(v, q) : v \in {Str(DocUUID), Str(NotAUUID), Undef}, q \in QualityValues}
    \cup {Review(v, q) : v \in VocabularyIdValues,
                         q \in {Num(0), Num(5), Num(6), Str(<<"5">>), Undef, Arr(<<Num(3)>>)}}
    \cup {Undef}

BatchItems ==
    {Review(v, q) : v \in {Str(DocUUID), Str(NotAUUID)}, q \in {Num(0), Num(6), Str(<<"5">>)}}
    \cup {Review(Str(DocUUID), Undef), Null}

PadItem == Review(Str(UpperUUID), Num(4))

\* short batches of any items, and batches around the size limit
BatchBodies ==
    {Payload([reviews |-> Arr(items)]) : items \in StringsUpTo(BatchItems, MaxPrefix)}
    \cup {Payload([reviews |-> Arr(first \o Rep(PadItem, n))]) :
            first \in StringsUpTo(BatchItems, 1), n \in (BatchMax - 1)..(BatchMax + MaxOver)}
    \cup {Payload([reviews |-> r]) : r \in {Undef, Null, Str(DocUUID), Obj(<<>>)}}

SearchChars == {"a", "<", ">", " "}

SearchValues ==
    {Undef, Arr(<<Str(<<"a">>), Str(<<"<">>)>>), Obj(<<>>)}
    \cup {Str(s) : s \in StringsUpTo(SearchChars, MaxStrLen)}
    \cup {Str(Rep("a", n)) : n \in (SearchMax - 1)..(SearchMax + MaxOver)}

\* 'user@example.com' and 'user', the documented examples
UserAtExampleCom ==
    <<"u", "s", "e", "r", "@", "e", "x", "a", "m", "p", "l", "e", ".", "c", "o", "m">>
UserAlone == <<"u", "s", "e", "r">>
\* ' P.Hund+x@Gmail.com'
GmailAddress ==
    <<" ", "P", ".", "H", "u", "n", "d", "+", "x", "@", "G", "m", "a", "i", "l", ".", "c", "o", "m">>

EmailValues == {Str(UserAtExampleCom), Str(GmailAddress), Str(UserAlone), Undef}

\* 'StrongP@ssw0rd', 'weak' and the password of the manual test, 'Abc@12356789'
StrongPassword == <<"S", "t", "r", "o", "n", "g", "P", "@", "s", "s", "w", "0", "r", "d">>
WeakExample == <<"w", "e", "a", "k">>
TestPassword == <<"A", "b", "c", "@", "1", "2", "3", "5", "6", "7", "8", "9">>

\* a lowercase letter, an uppercase letter, a digit, a character of the
\* pattern's special class, and a character outside the pattern's classes
PasswordChars == <<"a", "B", "1", "@", "#">>

\* the chosen characters of PasswordChars in order, the last one repeated up to length n
Filled(chosen, n) ==
    LET picked == SelectSeq(PasswordChars, LAMBDA ch : ch \in chosen)
    IN [i \in 1..n |-> IF i <= Len(picked) THEN picked[i] ELSE picked[Len(picked)]]

PasswordLengths ==
    (PasswordMin - 1)..PasswordMin \cup PasswordMax..(PasswordMax + MaxOver)

PasswordValues ==
    {Str(Filled(chosen, n)) :
        chosen \in (SUBSET {PasswordChars[i] : i \in 1..Len(PasswordChars)}) \ {{}},
        n \in PasswordLengths}
    \cup {Str(w) : w \in weakPasswords}
    \cup {Str(StrongPassword), Str(WeakExample), Str(TestPassword), Str(<<>>),
          Undef, Null, Num(12345678), Arr(<<Str(StrongPassword)>>)}

\* 'John Doe' and 'J', the documented examples
JohnDoe == <<"J", "o", "h", "n", " ", "D", "o", "e">>
\* 'Jo  Do'
TwoSpaces == <<"J", "o", " ", " ", "D", "o">>

NameChars == {"J", "o", " ", "-", "0"}

NameValues ==
    {Undef, Null, Str(JohnDoe), Str(TwoSpaces), Num(0), Bool(FALSE)}
    \cup {Str(s) : s \in StringsUpTo(NameChars, MaxStrLen)}
    \cup {Str(Rep("o", n)) : n \in (NameMax - 1)..(NameMax + MaxOver)}

Registration(email, password, name) ==
    Payload([email |-> email, password |-> password, name |-> name])

\* every password and every name with the documented email, and every email
RegisterBodies ==
    {Registration(Str(UserAtExampleCom), p, n) :
        p \in PasswordValues, n \in {Str(JohnDoe), Undef}}
    \cup {Registration(Str(UserAtExampleCom), p, n) :
            p \in {Str(StrongPassword), Str(WeakExample)}, n \in NameValues}
    \cup {Registration(e, Str(StrongPassword), Str(JohnDoe)) : e \in EmailValues}

\* 'IELTS' and '#3B82F6', the documented valid tag, and the same in lower case
IeltsUpper == <<"I", "E", "L", "T", "S">>
IeltsLower == <<"i", "e", "l", "t", "s">>
BlueUpper == <<"#", "3", "B", "8", "2", "F", "6">>
BlueLower == <<"#", "3", "b", "8", "2", "f", "6">>
\* 'red', the documented invalid colour
Red == <<"r", "e", "d">>

TagNameChars == {"a", "B", " ", "!"}

TagNameValues ==
    {Undef, Null, Num(7), Str(IeltsUpper), Str(IeltsLower), Arr(<<Str(IeltsLower)>>)}
    \cup {Str(s) : s \in StringsUpTo(TagNameChars, MaxStrLen)}
    \cup {Str(Rep("a", n)) : n \in (TagNameMax - 1)..(TagNameMax + MaxOver)}

ColorValues ==
    {Undef, Null, Str(<<>>), Num(0), Str(BlueUpper), Str(BlueLower), Str(Red),
     Str(<<" ">> \o BlueLower), Str(SubSeq(BlueLower, 1, 6)), Arr(<<Str(BlueLower)>>)}

TagBodies == {Payload([name |-> n, color |-> c]) : n \in TagNameValues, c \in ColorValues}

\* 'aPPle', ' Apple ', 'apple1'
MixedApple == <<"a", "P", "P", "l", "e">>
PaddedApple == <<" ", "A", "p", "p", "l", "e", " ">>
Apple1 == <<"a", "p", "p", "l", "e", "1">>
\* 'A fruit', 'a fruit', 'Tree'
AFruit == <<"A", " ", "f", "r", "u", "i", "t">>
LowerFruit == <<"a", " ", "f", "r", "u", "i", "t">>
Tree == <<"T", "r", "e", "e">>
\* 'An Apple a day', 'No fruit'
AppleADay == <<"A", "n", " ", "A", "p", "p", "l", "e", " ", "a", " ", "d", "a", "y">>
NoFruit == <<"N", "o", " ", "f", "r", "u", "i", "t">>
\* '/apl/'
Ipa == <<"/", "a", "p", "l", "/">>
\* 'https://a.io/x', 'ftp://a.io/x', 'a.io/x', 'HTTP://u@a.io:80'
HttpsUrl == <<"h", "t", "t", "p", "s", ":", "/", "/", "a", ".", "i", "o", "/", "x">>
FtpUrl == <<"f", "t", "p", ":", "/", "/", "a", ".", "i", "o", "/", "x">>
BareUrl == <<"a", ".", "i", "o", "/", "x">>
PortUrl == <<"H", "T", "T", "P", ":", "/", "/", "u", "@", "a", ".", "i", "o", ":", "8", "0">>

WordChars == {"a", "B", "-", "1"}

WordValues ==
    {Undef, Num(5), Str(MixedApple), Str(PaddedApple), Str(Apple1), Arr(<<Str(MixedApple)>>)}
    \cup {Str(s) : s \in StringsUpTo(WordChars, MaxStrLen)}
    \cup {Str(Rep("a", n)) : n \in (WordMax - 1)..(WordMax + MaxOver)}

DefinitionValues ==
    {Undef, Str(AFruit), Str(LowerFruit), Str(Tree), Arr(<<Str(LowerFruit)>>)}

NoExtras ==
    [example |-> Undef, pronunciation |-> Undef, partOfSpeech |-> Undef,
     difficulty |-> Undef, imageUrl |-> Undef, audioUrl |-> Undef, tags |-> Undef]

\* the optional fields of a vocabulary, one of them present at a time
Extras ==
    {NoExtras}
    \cup {[NoExtras EXCEPT !.example = v] :
            v \in {Null, Str(<<>>), Str(AppleADay), Str(NoFruit), Arr(<<Str(AppleADay)>>)}}
    \cup {[NoExtras EXCEPT !.pronunciation = v] : v \in {Str(Ipa), Str(Tree)}}
    \cup {[NoExtras EXCEPT !.partOfSpeech = v] :
            v \in {Str(toUpperCase(Noun)), Str(Tree), Num(0)}}
    \cup {[NoExtras EXCEPT !.difficulty = v] :
            v \in {Null, Num(DifficultyMin), Str(<<"5">>), Num(DifficultyMax + 1), Str(<<>>)}}
    \cup {[NoExtras EXCEPT !.imageUrl = v] :
            v \in {Str(HttpsUrl), Str(FtpUrl), Str(BareUrl), Str(PortUrl)}}
    \cup {[NoExtras EXCEPT !.audioUrl = v] : v \in {Str(HttpsUrl), Bool(FALSE)}}
    \cup {[NoExtras EXCEPT !.tags = v] :
            v \in {Null, Str(DocUUID), Arr(<<>>), Arr(<<Str(DocUUID)>>),
                   Arr(<<Str(DocUUID), Str(NotAUUID)>>),
                   Arr([i \in 1..(TagsMax + 1) |-> Str(DocUUID)])}}

Vocab(word, definition, extras) ==
    Payload([word |-> word, definition |-> definition, example |-> extras.example,
             pronunciation |-> extras.pronunciation, partOfSpeech |-> extras.partOfSpeech,
             difficulty |-> extras.difficulty, imageUrl |-> extras.imageUrl,
             audioUrl |-> extras.audioUrl, tags |-> extras.tags])

\* every word with every definition, and every optional field with two words
VocabBodies ==
    {Vocab(w, d, NoExtras) : w \in WordValues, d \in DefinitionValues}
    \cup {Vocab(w, Str(AFruit), e) : w \in {Str(MixedApple), Str(Tree)}, e \in Extras}

PageChars == {"0", "1", "-", "a"}

\* a query string holds strings, and arrays where a name is repeated
PageValues ==
    {Undef, Arr(<<Str(<<"1">>), Str(<<"2">>)>>)}
    \cup {Str(s) : s \in StringsUpTo(PageChars, MaxStrLen)}

LimitValues ==
    {Undef, Str(<<>>), Str(<<"0">>), Str(<<"a">>), Arr(<<Str(<<"5">>), Str(<<"6">>)>>)}
    \cup {Str(NatToStr(n)) : n \in {LimitMin, LimitDefault}}
    \cup {Str(NatToStr(n)) : n \in (LimitMax - 1)..(LimitMax + MaxOver)}

SortByValues == {Undef, Str(Word), Str(Tree)}
SortOrderValues == {Undef, Str(<<>>), Str(Asc), Str(Desc), Str(toUpperCase(Desc))}

Pagination(page, limit, sortBy, sortOrder) ==
    Payload([page |-> page, limit |-> limit, sortBy |-> sortBy, sortOrder |-> sortOrder])

\* every value of one parameter beside two choices for each of the others
PaginationQueries ==
    {Pagination(p, l, Undef, o) :
        p \in PageValues, l \in {Undef, Str(<<"5">>)}, o \in {Undef, Str(Asc)}}
    \cup {Pagination(p, l, b, o) :
            p \in {Undef, Str(<<"2">>)}, l \in LimitValues,
            b \in {Undef, Str(Word)}, o \in {Undef, Str(Asc)}}
    \cup {Pagination(p, l, b, o) :
            p \in {Undef, Str(<<"2">>)}, l \in {Undef, Str(<<"5">>)},
            b \in SortByValues, o \in SortOrderValues}

\* 'oldpassword123' and 'NewPassword@123', the passwords of the manual test
OldPassword123 ==
    <<"o", "l", "d", "p", "a", "s", "s", "w", "o", "r", "d", "1", "2", "3">>
NewPassword123 ==
    <<"N", "e", "w", "P", "a", "s", "s", "w", "o", "r", "d", "@", "1", "2", "3">>

\* a password of 8 characters with a lowercase letter, an uppercase letter and a digit
PlainStrong == Filled({"a", "B", "1"}, PasswordMin)

CurrentPasswordValues ==
    {Undef, Null, Str(<<>>), Str(OldPassword123), Str(NewPassword123), Str(StrongPassword),
     Str(PlainStrong), Num(12345678), Arr(<<>>), Arr(<<Str(StrongPassword)>>)}

NewPasswordValues == PasswordValues \cup {Str(NewPassword123), Str(OldPassword123)}

ChangePasswordBodies ==
    {Payload([currentPassword |-> c, newPassword |-> n, confirmNewPassword |-> n]) :
        c \in CurrentPasswordValues, n \in NewPasswordValues}

Requests(name) ==
    CASE name = "paginationSchema" ->
           {[body |-> Obj(<<>>), query |-> q, params |-> Obj(<<>>)] : q \in PaginationQueries}
      [] name = "changePasswordSchema" ->
           {[body |-> b, query |-> Obj(<<>>), params |-> Obj(<<>>)] :
               b \in ChangePasswordBodies}
      [] name = "registerSchema" ->
           {[body |-> b, query |-> Obj(<<>>), params |-> Obj(<<>>)] : b \in RegisterBodies}
      [] name = "tagSchema" ->
           {[body |-> b, query |-> Obj(<<>>), params |-> Obj(<<>>)] : b \in TagBodies}
      [] name = "vocabSchema" ->
           {[body |-> b, query |-> Obj(<<>>), params |-> Obj(<<>>)] : b \in VocabBodies}
      [] name = "reviewSchema" ->
           {[body |-> b, query |-> Obj(<<>>), params |-> Obj(<<>>)] : b \in ReviewBodies}
      [] name = "batchReviewSchema" ->
           {[body |-> b, query |-> Obj(<<>>), params |-> Obj(<<>>)] : b \in BatchBodies}
      [] name = "uuidParamSchema" ->
           {[body |-> Obj(<<>>), query |-> Obj(<<>>), params |-> Payload([id |-> v])] :
               v \in VocabularyIdValues}
      [] name = "searchSchema" ->
           {[body |-> Obj(<<>>), query |-> Payload([q |-> v]), params |-> Obj(<<>>)] :
               v \in SearchValues}
      [] name = "idFromEitherSchema" ->
           {[body |-> Obj(<<>>), query |-> Payload([id |-> v]), params |-> Payload([id |-> w])] :
               v \in {Str(DocUUID), Str(NotAUUID), Undef},
               w \in {Str(UpperUUID), Str(ShortUUID), Undef}}

-----------------------------------------------------------------------------
(* The tables of scripts/database.sql.  A row keeps its key columns and    *)
(* the columns a constraint or a review reads; a statement that breaks a   *)
(* constraint is rolled back and leaves its error in sqlError.  The rows   *)
(* of sessions only follow their user, and apiUsage refers to no table.    *)

MaxReviews == 2

UserIds == {"u1", "u2"}
VocabularyIds == {"v1", "v2"}
TagIds == {"t1"}
TagNames == {"n1"}
ReviewIds == 1..MaxReviews

\* the values offered to reviews.quality INT NULL: none, and the first above the range
SqlQualities == {Null, Num(QualityMax + 1)}

Ids(rows) == {r.id : r \in rows}

Tables ==
    [users |-> users, vocabularies |-> vocabularies, tags |-> tags,
     vocabulariesTags |-> vocabulariesTags, reviews |-> reviews]

EmptyTables ==
    [users |-> {}, vocabularies |-> {}, tags |-> {}, vocabulariesTags |-> {}, reviews |-> {}]

NoSqlError == [number |-> 0, constraint |-> ""]
Error(number, constraint) == [number |-> number, constraint |-> constraint]
Broken(holds, number, constraint) == IF holds THEN {} ELSE {Error(number, constraint)}

\* PRIMARY KEY (id)
PrimaryKey(rows) == \A a, b \in rows : a.id = b.id => a = b

\* CONSTRAINT UQ_tags_userId_name UNIQUE (userId, name)
UQ_tags_userId_name(db) ==
    \A a, b \in db.tags : (a.userId = b.userId /\ a.name = b.name) => a = b

\* the reviews table with the primary key as its only uniqueness constraint
UQ_reviews_id_only(db) == PrimaryKey(db.reviews)

\* CONSTRAINT UQ_reviews_userId_vocabularyId UNIQUE (userId, vocabularyId)
UQ_reviews_userId_vocabularyId(db) ==
    \A a, b \in db.reviews :
        (a.userId = b.userId /\ a.vocabularyId = b.vocabularyId) => a = b

\* FOREIGN KEY (userId) REFERENCES users(id)
FK_vocabularies_users_userId(db) == \A r \in db.vocabularies : r.userId \in Ids(db.users)
FK_tags_users_userId(db) == \A r \in db.tags : r.userId \in Ids(db.users)
FK_reviews_users_userId(db) == \A r \in db.reviews : r.userId \in Ids(db.users)

\* FOREIGN KEY (vocabularyId) REFERENCES vocabularies(id)
FK_vocabulariesTags_vocabularies_vocabularyId(db) ==
    \A r \in db.vocabulariesTags : r.vocabularyId \in Ids(db.vocabularies)
FK_reviews_vocabularies(db) == \A r \in db.reviews : r.vocabularyId \in Ids(db.vocabularies)

\* FOREIGN KEY (tagId) REFERENCES tags(id)
FK_vocabulariesTags_tags_tagId(db) == \A r \in db.vocabulariesTags : r.tagId \in Ids(db.tags)

\* the errors that the constraints raise against the tables a statement would leave
Violations(db) ==
    Broken(PrimaryKey(db.users), 2627, "PK_users")
    \cup Broken(PrimaryKey(db.vocabularies), 2627, "PK_vocabularies")
    \cup Broken(PrimaryKey(db.tags), 2627, "PK_tags")
    \cup Broken(PrimaryKey(db.reviews), 2627, "PK_reviews")
    \cup Broken(UQ_tags_userId_name(db), 2627, "UQ_tags_userId_name")
    \cup Broken(UQ_reviews_userId_vocabularyId(db), 2627, "UQ_reviews_userId_vocabularyId")
    \cup Broken(FK_vocabularies_users_userId(db), 547, "FK_vocabularies_users_userId")
    \cup Broken(FK_tags_users_userId(db), 547, "FK_tags_users_userId")
    \cup Broken(FK_vocabulariesTags_vocabularies_vocabularyId(db), 547,
                "FK_vocabulariesTags_vocabularies_vocabularyId")
    \cup Broken(FK_vocabulariesTags_tags_tagId(db), 547, "FK_vocabulariesTags_tags_tagId")
    \cup Broken(FK_reviews_users_userId(db), 547, "FK_reviews_users_userId")
    \cup Broken(FK_reviews_vocabularies(db), 547, "FK_reviews_vocabularies")

\* a statement commits the tables it would leave, or is rolled back with one
\* of the errors
Execute(db) ==
    IF Violations(db) = {}
    THEN /\ users' = db.users
         /\ vocabularies' = db.vocabularies
         /\ tags' = db.tags
         /\ vocabulariesTags' = db.vocabulariesTags
         /\ reviews' = db.reviews
         /\ sqlError' = NoSqlError
    ELSE /\ sqlError' \in Violations(db)
         /\ UNCHANGED tableVars

\* DEFAULT NEWID(): an identifier that no row of the table has
NEWID(ids, rows) == ids \ Ids(rows)

\* the column defaults of reviews: easeFactor 2.5 (in tenths), interval 0,
\* repetitions 0, createdAt the time of the statement
Review0(id, userId, vocabularyId, nextReview, quality) ==
    [id |-> id, userId |-> userId, vocabularyId |-> vocabularyId,
     easeFactor |-> 25, interval |-> 0, repetitions |-> 0,
     nextReview |-> nextReview, lastReviewed |-> Null, quality |-> quality,
     createdAt |-> now]

\* ON DELETE CASCADE from tags: the links of the deleted tags go
cascadeTags(db, gone) ==
    [db EXCEPT !.tags = @ \ gone,
               !.vocabulariesTags = {l \in @ : l.tagId \notin Ids(gone)}]

\* the cascade from vocabularies taking every review of the owners of the
\* deleted vocabularies
cascadeVocabulariesByOwner(db, gone) ==
    [db EXCEPT !.vocabularies = @ \ gone,
               !.reviews = {r \in @ : r.userId \notin {g.userId : g \in gone}}]

\* ON DELETE CASCADE from vocabularies: the reviews of the deleted vocabularies
\* go; their links stay for the NO ACTION check
cascadeVocabularies(db, gone) ==
    [db EXCEPT !.vocabularies = @ \ gone,
               !.reviews = {r \in @ : r.vocabularyId \notin Ids(gone)}]

\* ON DELETE CASCADE from users: their vocabularies and tags go, with what
\* follows those; their reviews stay for the NO ACTION check
cascadeUsers(db, gone) ==
    LET v == cascadeVocabularies(db, {r \in db.vocabularies : r.userId \in Ids(gone)})
        t == cascadeTags(v, {r \in db.tags : r.userId \in Ids(gone)})
    IN [t EXCEPT !.users = @ \ gone]

\* everything that is not a table or the error of the last statement
outsideTables == <<validateVars, peer, uuidVars, utilityVars, now, processVars, initVars>>

\* INSERT INTO users
InsertUser ==
    /\ \E id \in NEWID(UserIds, users) :
          Execute([Tables EXCEPT !.users = @ \cup {[id |-> id]}])
    /\ UNCHANGED outsideTables

\* INSERT INTO vocabularies (userId, ...)
InsertVocabulary ==
    /\ \E id \in NEWID(VocabularyIds, vocabularies) : \E userId \in UserIds :
          Execute([Tables EXCEPT !.vocabularies = @ \cup {[id |-> id, userId |-> userId]}])
    /\ UNCHANGED outsideTables

\* INSERT INTO tags (userId, name, ...)
InsertTag ==
    /\ \E id \in NEWID(TagIds, tags) : \E userId \in UserIds : \E name \in TagNames :
          Execute([Tables EXCEPT
                     !.tags = @ \cup {[id |-> id, userId |-> userId, name |-> name]}])
    /\ UNCHANGED outsideTables

\* INSERT INTO vocabulariesTags (vocabularyId, tagId)
InsertVocabularyTag ==
    /\ \E vocabularyId \in VocabularyIds : \E tagId \in TagIds :
          LET row == [vocabularyId |-> vocabularyId, tagId |-> tagId]
          IN IF row \in vocabulariesTags
             THEN /\ sqlError' = Error(2627, "PK_vocabulariesTags")
                  /\ UNCHANGED tableVars
             ELSE Execute([Tables EXCEPT !.vocabulariesTags = @ \cup {row}])
    /\ UNCHANGED outsideTables

Least(ids) == CHOOSE i \in ids : \A j \in ids : i <= j

\* INSERT INTO reviews (userId, vocabularyId, nextReview, quality) with
\* nextReview the time of the statement
InsertReview(userId, vocabularyId) ==
    /\ Cardinality(reviews) < MaxReviews
    /\ \E quality \in SqlQualities :
          Execute([Tables EXCEPT
                     !.reviews = @ \cup {Review0(Least(NEWID(ReviewIds, reviews)), userId,
                                                 vocabularyId, now, quality)}])
    /\ UNCHANGED outsideTables

\* UPDATE reviews SET userId, vocabularyId, nextReview, quality WHERE id = row.id
UpdateReview(row) ==
    /\ row \in reviews
    /\ \E userId \in UserIds : \E vocabularyId \in VocabularyIds :
       \E quality \in SqlQualities :
          Execute([Tables EXCEPT
                     !.reviews = (@ \ {row}) \cup
                        {[row EXCEPT !.userId = userId, !.vocabularyId = vocabularyId,
                                     !.nextReview = now, !.quality = quality]}])
    /\ UNCHANGED outsideTables

\* DELETE FROM reviews WHERE id = row.id
DeleteReview(row) ==
    /\ row \in reviews
    /\ Execute([Tables EXCEPT !.reviews = @ \ {row}])
    /\ UNCHANGED outsideTables

\* DELETE FROM users WHERE id = row.id: the cascades run, then the NO ACTION
\* keys are checked
DeleteUser(row) ==
    /\ row \in users
    /\ Execute(cascadeUsers(Tables, {row}))
    /\ UNCHANGED outsideTables

\* DELETE FROM vocabularies WHERE id = row.id
DeleteVocabulary(row) ==
    /\ row \in vocabularies
    /\ Execute(cascadeVocabularies(Tables, {row}))
    /\ UNCHANGED outsideTables

\* DELETE FROM tags WHERE id = row.id
DeleteTag(row) ==
    /\ row \in tags
    /\ Execute(cascadeTags(Tables, {row}))
    /\ UNCHANGED outsideTables

-----------------------------------------------------------------------------
(* The middleware, step by step *)

\* the middleware is called with a request: every chain's run starts and selects
\* its fields; next and res are those of this call
Start(name, request) ==
    /\ schema' = name
    /\ sent' = request
    /\ req' = request
    /\ inst' = [c \in 1..Len(Chains(name)) |-> selectFields(Chains(name)[c], request)]
    /\ pos' = [c \in 1..Len(Chains(name)) |-> 0]
    /\ ctxErrors' = [c \in 1..Len(Chains(name)) |-> <<>>]
    /\ contexts' = <<>>
    /\ nextCalls' = 0
    /\ res' = NoResponse
    /\ pc' = "running"

\* a request arrives from a client
Invoke ==
    /\ pc = "idle"
    /\ \E name \in SchemaNames : \E request \in Requests(name) : Start(name, request)
    /\ UNCHANGED <<library, earlier>>
    /\ UNCHANGED outsideValidate

\* one chain runs its next item on all its field instances
RunItem(c) ==
    /\ pc = "running"
    /\ c \in 1..Len(pos)
    /\ pos[c] < Len(Chains(schema)[c].items)
    /\ LET chain == Chains(schema)[c]
           item == chain.items[pos[c] + 1]
           after == [i \in 1..Len(inst[c]) |->
                       [path |-> inst[c][i].path,
                        value |-> IF skipped(chain, inst[c][i].value) THEN inst[c][i].value
                                  ELSE runItem(item, inst[c][i].value).value]]
           errs == IF item.kind = "oneOf" THEN oneOfErrors(chain, req)
                   ELSE itemErrors(chain, item, inst[c])
       IN /\ ctxErrors' = [ctxErrors EXCEPT ![c] = @ \o errs]
          /\ inst' = [inst EXCEPT ![c] = after]
          /\ req' = [req EXCEPT ![chain.location] = writeBack(@, chain, after)]
          /\ pos' = [pos EXCEPT ![c] = @ + 1]
          /\ contexts' = IF pos[c] + 1 = Len(chain.items) THEN Append(contexts, c) ELSE contexts
    /\ UNCHANGED <<library, pc, schema, sent, nextCalls, res, earlier>>
    /\ UNCHANGED outsideValidate

\* the chains whose run has nothing to do: optional, with every instance skipped
idleChains ==
    {c \in 1..Len(pos) :
        /\ pos[c] = 0
        /\ Chains(schema)[c].optional
        /\ Chains(schema)[c].groups = <<>>
        /\ \A i \in 1..Len(inst[c]) : skipped(Chains(schema)[c], inst[c][i].value)}

RECURSIVE Ascending(_)
Ascending(S) ==
    IF S = {} THEN <<>>
    ELSE LET m == CHOOSE x \in S : \A y \in S : x <= y
         IN <<m>> \o Ascending(S \ {m})

\* the runs that have nothing to do, taken as one step: every item of such a
\* run finds no instance, reads nothing and writes nothing
RunIdleChains ==
    /\ pc = "running"
    /\ idleChains # {}
    /\ pos' = [c \in 1..Len(pos) |->
                 IF c \in idleChains THEN Len(Chains(schema)[c].items) ELSE pos[c]]
    /\ contexts' = contexts \o Ascending(idleChains)
    /\ UNCHANGED <<library, pc, schema, sent, req, inst, ctxErrors, nextCalls, res, earlier>>
    /\ UNCHANGED outsideValidate

\* the decision without the return in front of next(): the response follows it
RespondFallThrough ==
    /\ pc = "running"
    /\ allSettled
    /\ nextCalls' = nextCalls + 1
    /\ res' = [statusCode |-> 400,
               jsonCalls |-> res.jsonCalls + 1,
               body |-> [error |-> "Validation Error",
                         details |-> [k \in 1..Len(errorsArray) |->
                                        formatError(errorsArray[k])]]]
    /\ pc' = "done"
    /\ UNCHANGED <<library, schema, sent, req, inst, pos, ctxErrors, contexts, earlier>>
    /\ UNCHANGED outsideValidate

\* the decision with the accepted quality written to the stored reviews
RespondStoring ==
    /\ pc = "running"
    /\ allSettled
    /\ IF errorsArray = <<>>
       THEN /\ nextCalls' = nextCalls + 1
            /\ res' = res
            /\ reviews' = {[r EXCEPT !.quality = Get(req.body, "quality"),
                                     !.lastReviewed = Num(now)] : r \in reviews}
       ELSE /\ res' = [statusCode |-> 400,
                       jsonCalls |-> res.jsonCalls + 1,
                       body |-> [error |-> "Validation Error",
                                 details |-> [k \in 1..Len(errorsArray) |->
                                                formatError(errorsArray[k])]]]
            /\ nextCalls' = nextCalls
            /\ reviews' = reviews
    /\ pc' = "done"
    /\ UNCHANGED <<library, schema, sent, req, inst, pos, ctxErrors, contexts, earlier>>
    /\ UNCHANGED <<peer, uuidVars, utilityVars, users, vocabularies, tags, vocabulariesTags, sqlError, now>>
    /\ UNCHANGED <<processVars, initVars>>

\* after the await: collect the errors, then next() or the 400 response
Respond ==
    /\ pc = "running"
    /\ allSettled
    /\ IF errorsArray = <<>>
       THEN /\ nextCalls' = nextCalls + 1
            /\ res' = res
       ELSE /\ res' = [statusCode |-> 400,
                       jsonCalls |-> res.jsonCalls + 1,
                       body |-> [error |-> "Validation Error",
                                 details |-> [k \in 1..Len(errorsArray) |->
                                                formatError(errorsArray[k])]]]
            /\ nextCalls' = nextCalls
    /\ pc' = "done"
    /\ UNCHANGED <<library, schema, sent, req, inst, pos, ctxErrors, contexts, earlier>>
    /\ UNCHANGED outsideValidate

-----------------------------------------------------------------------------
(* Two invocations of one middleware: validations is one array of chains,  *)
(* and each call of run(req) works on the request it is given.  The second *)
(* invocation is held in peer and takes the same steps as the first.       *)

\* validations.map(v => v.run(req)): every chain's run has selected its fields
started(name, request) ==
    [pc |-> "running", sent |-> request, req |-> request,
     inst |-> [c \in 1..Len(Chains(name)) |-> selectFields(Chains(name)[c], request)],
     pos |-> [c \in 1..Len(Chains(name)) |-> 0],
     ctxErrors |-> [c \in 1..Len(Chains(name)) |-> <<>>],
     contexts |-> <<>>, nextCalls |-> 0, res |-> NoResponse]

\* a chain's run that starts from the errors the chain gathered for the other
\* request: the context is kept on the chain
afterItemSharedContext(s, name, c) ==
    LET chain == Chains(name)[c]
        item == chain.items[s.pos[c] + 1]
        after == [i \in 1..Len(s.inst[c]) |->
                    [path |-> s.inst[c][i].path,
                     value |-> IF skipped(chain, s.inst[c][i].value) THEN s.inst[c][i].value
                               ELSE runItem(item, s.inst[c][i].value).value]]
        errs == IF item.kind = "oneOf" THEN oneOfErrors(chain, s.req)
                ELSE itemErrors(chain, item, s.inst[c])
    IN [s EXCEPT !.ctxErrors[c] = (IF s.pos[c] = 0 THEN ctxErrors[c] ELSE <<>>) \o @ \o errs,
                 !.inst[c] = after,
                 !.req[chain.location] = writeBack(@, chain, after),
                 !.pos[c] = @ + 1,
                 !.contexts = IF s.pos[c] + 1 = Len(chain.items) THEN Append(@, c) ELSE @]

\* one chain's run has applied its next item to the request of this invocation
afterItem(s, name, c) ==
    LET chain == Chains(name)[c]
        item == chain.items[s.pos[c] + 1]
        after == [i \in 1..Len(s.inst[c]) |->
                    [path |-> s.inst[c][i].path,
                     value |-> IF skipped(chain, s.inst[c][i].value) THEN s.inst[c][i].value
                               ELSE runItem(item, s.inst[c][i].value).value]]
        errs == IF item.kind = "oneOf" THEN oneOfErrors(chain, s.req)
                ELSE itemErrors(chain, item, s.inst[c])
    IN [s EXCEPT !.ctxErrors[c] = @ \o errs,
                 !.inst[c] = after,
                 !.req[chain.location] = writeBack(@, chain, after),
                 !.pos[c] = @ + 1,
                 !.contexts = IF s.pos[c] + 1 = Len(chain.items) THEN Append(@, c) ELSE @]

\* after the await: next() or the 400 response of this invocation
decided(s) ==
    LET errors == Flatten([k \in 1..Len(s.contexts) |-> s.ctxErrors[s.contexts[k]]])
    IN IF errors = <<>>
       THEN [s EXCEPT !.pc = "done", !.nextCalls = @ + 1]
       ELSE [s EXCEPT !.pc = "done",
                      !.res = [statusCode |-> 400,
                               jsonCalls |-> @.jsonCalls + 1,
                               body |-> [error |-> "Validation Error",
                                         details |-> [k \in 1..Len(errors) |->
                                                        formatError(errors[k])]]]]

SharedSchemas == {"reviewSchema", "searchSchema"}

SharedRequests(name) ==
    CASE name = "reviewSchema" ->
           {[body |-> b, query |-> Obj(<<>>), params |-> Obj(<<>>)] :
               b \in {Review(Str(DocUUID), Str(<<"5">>)), Review(Str(DocUUID), Num(0)),
                      Review(Str(NotAUUID), Num(QualityMax + 1)),
                      Review(Str(UpperUUID), Undef)}}
      [] name = "searchSchema" ->
           {[body |-> Obj(<<>>), query |-> Payload([q |-> v]), params |-> Obj(<<>>)] :
               v \in {Str(<<" ", "a">>), Str(<<"<", ">">>), Str(<<>>), Undef}}

\* the first request arrives at a route that another request will share
InvokeShared ==
    /\ pc = "idle"
    /\ \E name \in SharedSchemas : \E request \in SharedRequests(name) : Start(name, request)
    /\ UNCHANGED <<library, earlier>>
    /\ UNCHANGED outsideValidate

\* another request arrives at the same route while the first is being served
PeerInvoke ==
    /\ pc \in {"running", "done"}
    /\ peer.pc = "idle"
    /\ \E request \in SharedRequests(schema) \ {sent} : peer' = started(schema, request)
    /\ UNCHANGED outsidePeer

PeerRunItem(c) ==
    /\ peer.pc = "running"
    /\ c \in 1..Len(peer.pos)
    /\ peer.pos[c] < Len(Chains(schema)[c].items)
    /\ peer' = afterItem(peer, schema, c)
    /\ UNCHANGED outsidePeer

PeerRespond ==
    /\ peer.pc = "running"
    /\ \A c \in 1..Len(peer.pos) : peer.pos[c] = Len(Chains(schema)[c].items)
    /\ peer' = decided(peer)
    /\ UNCHANGED outsidePeer

-----------------------------------------------------------------------------
(* sanitizeInput *)

\* everything that is not the state of a sanitizeInput call
outsideSanitize == <<validateVars, peer, uuidVars, dbVars, processVars, initVars, rateVars>>

htmlEscapeMap ==
    [char \in {"&", "<", ">", "\"", "'", "/"} |->
        CASE char = "&" -> <<"&", "a", "m", "p", ";">>
          [] char = "<" -> <<"&", "l", "t", ";">>
          [] char = ">" -> <<"&", "g", "t", ";">>
          [] char = "\"" -> <<"&", "q", "u", "o", "t", ";">>
          [] char = "'" -> <<"&", "#", "x", "2", "7", ";">>
          [] char = "/" -> <<"&", "#", "x", "2", "F", ";">>]

\* the character class of /[&<>"'/]/g
escapedClass == {"&", "<", ">", "\"", "'", "/"}

\* input.replace(regex, char => htmlEscapeMap[char]) on the characters of a string
replaceAll(str) ==
    Flatten([i \in 1..Len(str) |->
                IF str[i] \in escapedClass THEN htmlEscapeMap[str[i]] ELSE <<str[i]>>])

sanitizeInput(value) ==
    IF value.t /= "string" THEN value ELSE Str(replaceAll(value.s))

\* '<script>alert("XSS")</script>', the documented example
DocXSS ==
    <<"<", "s", "c", "r", "i", "p", "t", ">", "a", "l", "e", "r", "t", "(", "\"", "X", "S", "S",
      "\"", ")", "<", "/", "s", "c", "r", "i", "p", "t", ">">>

SanitizeChars == {"&", "<", ">", "\"", "'", "/", "a", ";"}

SanitizeArgs ==
    {Str(str) : str \in StringsUpTo(SanitizeChars, MaxStrLen)}
        \cup {Str(DocXSS), Undef, Null, Num(4), Arr(<<Str(<<"<">>)>>), Obj(<<>>)}

CallSanitizeInput ==
    /\ sanitizePc = "input"
    /\ sanitized' = sanitizeInput(input)
    /\ sanitizePc' = "returned"
    /\ UNCHANGED input
    /\ UNCHANGED outsideSanitize

\* the result is passed to sanitizeInput again
CallSanitizeInputAgain ==
    /\ sanitizePc = "returned"
    /\ input' = sanitized
    /\ sanitized' = sanitizeInput(sanitized)
    /\ sanitizePc' = "again"
    /\ UNCHANGED outsideSanitize

-----------------------------------------------------------------------------
(* checkRateLimit over the apiUsage table *)

MaxUsageRows == 2
MaxCount == 2

\* everything that is not the apiUsage table or the state of a checkRateLimit call
outsideRate ==
    <<validateVars, peer, uuidVars, dbVars, processVars, initVars, sanitizeVars>>

Endpoints == {"createVocab", "search"}
UsageIds == 1..MaxUsageRows

\* the columns of CREATE TABLE apiUsage
apiUsageColumns == {"id", "endpoint", "date", "count", "createdAt"}

NoRateArgs == [userId |-> "", action |-> "", limit |-> 0, windowMs |-> 0]

\* no checkRateLimit call takes part and the table is empty
RateUnused ==
    /\ apiUsage = {}
    /\ ratePc = "unused"
    /\ rateArgs = NoRateArgs
    /\ rateRet = TRUE

UQ_apiUsage_endpoint_date(rows) ==
    \A a, b \in rows : (a.endpoint = b.endpoint /\ a.date = b.date) => a = b

\* INSERT INTO apiUsage (endpoint, date, count): the first use of an endpoint on a date
InsertApiUsage ==
    /\ Cardinality(apiUsage) < MaxUsageRows
    /\ \E endpoint \in Endpoints :
          LET row == [id |-> Least(NEWID(UsageIds, apiUsage)), endpoint |-> endpoint,
                      date |-> now, count |-> 1, createdAt |-> now]
          IN /\ UQ_apiUsage_endpoint_date(apiUsage \cup {row})
             /\ apiUsage' = apiUsage \cup {row}
    /\ UNCHANGED <<ratePc, rateArgs, rateRet>>
    /\ UNCHANGED outsideRate

\* UPDATE apiUsage SET count = count + 1 WHERE id = row.id: one more use
UpdateApiUsage(row) ==
    /\ row \in apiUsage
    /\ row.count < MaxCount
    /\ apiUsage' = (apiUsage \ {row}) \cup {[row EXCEPT !.count = @ + 1]}
    /\ UNCHANGED <<ratePc, rateArgs, rateRet>>
    /\ UNCHANGED outsideRate

\* the fields of the where clause of prisma.apiUsage.count
whereFields == {"endpoint", "userId", "createdAt"}

\* prisma.apiUsage.count({ where }): the number of rows that match, or the
\* error of a where clause that names a field the table does not have
countApiUsage(rows, action, since) ==
    IF ~(whereFields \subseteq apiUsageColumns)
    THEN [threw |-> TRUE, count |-> 0]
    ELSE [threw |-> FALSE,
          count |-> Cardinality({r \in rows : r.endpoint = action /\ r.createdAt >= since})]

\* checkRateLimit(prisma, userId, action, limit, windowMs); failed is the
\* query rejected by the database
checkRateLimit(rows, action, limit, windowMs, failed) ==
    LET since == now - windowMs
        result == countApiUsage(rows, action, since)
    IN IF failed \/ result.threw THEN TRUE ELSE result.count < limit

CallCheckRateLimit ==
    /\ ratePc \in {"idle", "returned"}
    /\ \E userId \in UserIds : \E action \in Endpoints :
       \E limit \in 1..MaxCount : \E windowMs \in 0..MaxTime : \E failed \in BOOLEAN :
          /\ rateArgs' = [userId |-> userId, action |-> action, limit |-> limit,
                          windowMs |-> windowMs]
          /\ rateRet' = checkRateLimit(apiUsage, action, limit, windowMs, failed)
    /\ ratePc' = "returned"
    /\ UNCHANGED apiUsage
    /\ UNCHANGED outsideRate

\* time passes
RateTick ==
    /\ now < MaxTime
    /\ now' = now + 1
    /\ ratePc' = "idle"
    /\ UNCHANGED <<apiUsage, rateArgs, rateRet>>
    /\ UNCHANGED <<tableVars, sqlError, validateVars, peer, uuidVars, sanitizeVars,
                   processVars, initVars>>

-----------------------------------------------------------------------------
(* The process: the logger's handling of uncaught errors, initDatabase,    *)
(* and a client that corrects a rejected request.                          *)

MaxUncaught == 1

NodeEnvs == {"production", "development", "test"}

\* the exit code of a process that has not exited
NoExit == -1

\* const isProduction = process.env.NODE_ENV === "production"
isProduction == nodeEnv = "production"

\* winston's own default, which holds when the option is left out
exitOnErrorDefault == TRUE

\* exitOnError: isProduction
exitOnError == isProduction

Running == exitCode = NoExit

\* an error that nothing catches reaches the Console transport, which has
\* handleExceptions and handleRejections; the logger logs it and then exits
\* the process if exitOnError is set
UncaughtException ==
    /\ Running
    /\ uncaught < MaxUncaught
    /\ uncaught' = uncaught + 1
    /\ exitCode' = IF exitOnError THEN 1 ELSE NoExit
    /\ UNCHANGED <<nodeEnv, validateVars, peer, uuidVars, utilityVars, dbVars, initVars>>

\* the tables right after the script has run: the database is dropped and created anew
Recreated ==
    /\ users' = {}
    /\ vocabularies' = {}
    /\ tags' = {}
    /\ vocabulariesTags' = {}
    /\ reviews' = {}
    /\ sqlError' = NoSqlError

\* what an awaited call of the driver threw: nothing, a connection error, or
\* a request error at one statement of the script
NoDbError == [at |-> "none", statement |-> 0]
ConnectionError == [at |-> "connect", statement |-> 0]
RequestError(k) == [at |-> "batch", statement |-> k]

\* the statements of the script at which the batch is let fail
Statements == 1..MaxStatement

\* a catch block that hands the error on
catchRethrow(error) == [pc |-> "threw", ret |-> FALSE]

\* catch (error) { console.error(...); return false; }
catch(error) == [pc |-> "returned", ret |-> FALSE]

\* initDatabase up to the end of await sql.connect(dbConfig): the pool, or the
\* catch block with return false
InitDatabaseConnect ==
    /\ Running
    /\ dbPc = "start"
    /\ \E error \in {NoDbError, ConnectionError} :
          /\ dbError' = error
          /\ IF error = NoDbError
             THEN dbPc' = "connected" /\ dbRet' = dbRet
             ELSE dbPc' = catch(error).pc /\ dbRet' = catch(error).ret
    /\ UNCHANGED <<batches, processVars, validateVars, peer, uuidVars, utilityVars, dbVars>>

\* await pool.request().batch(sqlScript): return true, or the catch block with
\* return false
InitDatabaseBatch ==
    /\ Running
    /\ dbPc = "connected"
    /\ batches' = batches + 1
    /\ \E error \in {NoDbError} \cup {RequestError(k) : k \in Statements} :
          /\ dbError' = error
          /\ IF error = NoDbError
             THEN dbPc' = "returned" /\ dbRet' = TRUE /\ Recreated
             ELSE /\ dbPc' = catch(error).pc
                  /\ dbRet' = catch(error).ret
                  /\ UNCHANGED <<tableVars, sqlError>>
    /\ UNCHANGED <<now, processVars, validateVars, peer, uuidVars, utilityVars>>

\* the client of a rejected request sends a request again
Resubmit ==
    /\ pc = "done"
    /\ res.jsonCalls = 1
    /\ earlier = NoEarlier
    /\ \E request \in SharedRequests(schema) \ {sent} : Start(schema, request)
    /\ earlier' = [outcome |-> "rejected", sent |-> sent]
    /\ UNCHANGED library
    /\ UNCHANGED outsideValidate

-----------------------------------------------------------------------------
(* The life of a review: the storage layer and the scheduler that the      *)
(* tables are written for.  A submission that validate(reviewSchema)       *)
(* accepts is stored by an upsert on (userId, vocabularyId).               *)

MaxInterval == 1

\* the value a chain leaves for a field, item after item
RECURSIVE chainValue(_, _, _)
chainValue(chain, items, value) ==
    IF items = <<>> \/ skipped(chain, value) THEN value
    ELSE chainValue(chain, Tail(items), runItem(Head(items), value).value)

\* the payload is accepted by every chain of reviewSchema
acceptedByReviewSchema(payload) ==
    \A c \in 1..Len(reviewSchema) :
        chainErrors(reviewSchema[c], reviewSchema[c].items,
                    Get(payload, reviewSchema[c].field)) = <<>>

\* the quality that validate(reviewSchema) hands on
handedQuality(payload) ==
    chainValue(reviewSchema[1], reviewSchema[1].items, Get(payload, "quality"))

\* the identifier that a vocabulary row has on the wire
VocabularyUUID(id) == IF id = "v1" THEN DocUUID ELSE UpperUUID

SubmittedQualities == {Str(<<"5">>), Num(QualityMax + 1), Undef}

\* the scheduler: a new interval of at least a day; the ease factor and the
\* repetition count are left to its formula, which the tables do not fix
Scheduled(row, quality, interval) ==
    [row EXCEPT !.quality = quality, !.interval = interval,
                !.lastReviewed = Num(now), !.nextReview = now + interval]

\* a validated submission of a user for a vocabulary is scheduled and stored
SubmitReview(userId, vocabularyId, quality) ==
    /\ acceptedByReviewSchema(Review(Str(VocabularyUUID(vocabularyId)), quality))
    /\ \E interval \in 1..MaxInterval :
          LET handed == handedQuality(Review(Str(VocabularyUUID(vocabularyId)), quality))
              old == {r \in reviews : r.userId = userId /\ r.vocabularyId = vocabularyId}
              row == IF old = {}
                     THEN Review0(Least(NEWID(ReviewIds, reviews)), userId, vocabularyId,
                                  now, Null)
                     ELSE CHOOSE r \in old : TRUE
          IN /\ old = {} => Cardinality(reviews) < MaxReviews
             /\ Execute([Tables EXCEPT
                           !.reviews = (@ \ old) \cup {Scheduled(row, handed, interval)}])
    /\ UNCHANGED outsideTables

\* time passes
Tick ==
    /\ now < MaxTime
    /\ now' = now + 1
    /\ UNCHANGED <<tableVars, sqlError, validateVars, peer, uuidVars, utilityVars, processVars, initVars>>

\* the tables hold these rows and no statement has failed
TablesAre(db) ==
    /\ users = db.users
    /\ vocabularies = db.vocabularies
    /\ tags = db.tags
    /\ vocabulariesTags = db.vocabulariesTags
    /\ reviews = db.reviews
    /\ sqlError = NoSqlError

\* one user with one vocabulary, reviewed once with quality 4
SeededTables ==
    [EmptyTables EXCEPT
       !.users = {[id |-> "u1"]},
       !.vocabularies = {[id |-> "v1", userId |-> "u1"]},
       !.reviews = {[Review0(1, "u1", "v1", 1, Num(4)) EXCEPT !.lastReviewed = Num(0)]}]

\* one user with two vocabularies, not yet reviewed
TwoVocabularies ==
    [EmptyTables EXCEPT
       !.users = {[id |-> "u1"]},
       !.vocabularies = {[id |-> "v1", userId |-> "u1"], [id |-> "v2", userId |-> "u1"]}]

\* no middleware invocation takes part
ValidateUnused ==
    /\ library = 7
    /\ pc = "unused"
    /\ schema = "none"
    /\ sent = NoRequest
    /\ req = NoRequest
    /\ inst = <<>>
    /\ pos = <<>>
    /\ ctxErrors = <<>>
    /\ contexts = <<>>
    /\ nextCalls = 0
    /\ res = NoResponse
    /\ earlier = NoEarlier
    /\ peer = NoPeer

\* the process runs outside production, and no initDatabase call takes part
ProcessUnused ==
    /\ nodeEnv = "development"
    /\ exitCode = NoExit
    /\ uncaught = 0
    /\ dbPc = "unused"
    /\ dbRet = FALSE
    /\ batches = 0
    /\ dbError = NoDbError

\* no call of another utility function takes part
UtilitiesUnused ==
    /\ sanitizePc = "unused"
    /\ input = Undef
    /\ sanitized = Undef
    /\ RateUnused

\* no isValidUUID call takes part
UUIDUnused ==
    /\ uuidPc = "unused"
    /\ uuidArg = Undef
    /\ uuidRet = FALSE
    /\ uuidEdits = 0

\* the request that an invocation accepted is validated again by the same
\* middleware; the contexts of the first run, which hold no error, stay on it
Revalidate ==
    /\ pc = "done"
    /\ earlier = NoEarlier
    /\ nextCalls = 1
    /\ Start(schema, req)
    /\ earlier' = [outcome |-> "accepted", sent |-> sent]
    /\ UNCHANGED library
    /\ UNCHANGED outsideValidate

Init ==
    /\ library \in {6, 7}
    /\ pc = "idle"
    /\ schema = "none"
    /\ sent = NoRequest
    /\ req = NoRequest
    /\ inst = <<>>
    /\ pos = <<>>
    /\ ctxErrors = <<>>
    /\ contexts = <<>>
    /\ nextCalls = 0
    /\ res = NoResponse
    /\ earlier = NoEarlier
    /\ peer = NoPeer
    /\ uuidPc = "unused"
    /\ uuidArg = Undef
    /\ uuidRet = FALSE
    /\ uuidEdits = 0
    /\ ProcessUnused
    /\ UtilitiesUnused
    /\ now = 0
    /\ TablesAre(SeededTables)

Next ==
    \/ Invoke
    \/ \E c \in 1..3 : RunItem(c)
    \/ Respond
    \/ Revalidate

Spec == Init /\ [][Next]_vars

InitUUID ==
    /\ library = 7
    /\ pc = "unused"
    /\ schema = "none"
    /\ sent = NoRequest
    /\ req = NoRequest
    /\ inst = <<>>
    /\ pos = <<>>
    /\ ctxErrors = <<>>
    /\ contexts = <<>>
    /\ nextCalls = 0
    /\ res = NoResponse
    /\ earlier = NoEarlier
    /\ peer = NoPeer
    /\ uuidPc = "input"
    /\ uuidArg \in UuidArgs
    /\ uuidRet = FALSE
    /\ uuidEdits = 0
    /\ ProcessUnused
    /\ UtilitiesUnused
    /\ now = 0
    /\ TablesAre(EmptyTables)

NextUUID ==
    \/ EditUUID
    \/ CallIsValidUUID

SpecUUID == InitUUID /\ [][NextUUID]_vars

\* the tables under the statements of any client
InitDB ==
    /\ ValidateUnused
    /\ UUIDUnused
    /\ ProcessUnused
    /\ UtilitiesUnused
    /\ now = 0
    /\ TablesAre(EmptyTables)

NextDB ==
    \/ InsertUser
    \/ InsertVocabulary
    \/ InsertTag
    \/ InsertVocabularyTag
    \/ \E userId \in UserIds : \E vocabularyId \in VocabularyIds :
          InsertReview(userId, vocabularyId)
    \/ \E row \in reviews : UpdateReview(row)
    \/ \E row \in reviews : DeleteReview(row)
    \/ \E row \in users : DeleteUser(row)
    \/ \E row \in vocabularies : DeleteVocabulary(row)
    \/ \E row \in tags : DeleteTag(row)

SpecDB == InitDB /\ [][NextDB]_vars

\* reviews under the storage layer, while users and vocabularies come and go
InitLife ==
    /\ ValidateUnused
    /\ UUIDUnused
    /\ ProcessUnused
    /\ UtilitiesUnused
    /\ now = 0
    /\ TablesAre(TwoVocabularies)

NextLife ==
    \/ \E userId \in UserIds : \E vocabularyId \in VocabularyIds :
       \E quality \in SubmittedQualities : SubmitReview(userId, vocabularyId, quality)
    \/ Tick
    \/ \E row \in users : DeleteUser(row)
    \/ \E row \in vocabularies : DeleteVocabulary(row)

SpecLife == InitLife /\ [][NextLife]_vars

\* two requests served by one middleware, their steps interleaved
NextPair ==
    \/ InvokeShared
    \/ \E c \in 1..2 : RunItem(c)
    \/ Respond
    \/ PeerInvoke
    \/ \E c \in 1..2 : PeerRunItem(c)
    \/ PeerRespond

SpecPair == Init /\ [][NextPair]_vars

\* the middleware of a registration route
InvokeRegister ==
    /\ pc = "idle"
    /\ \E request \in Requests("registerSchema") : Start("registerSchema", request)
    /\ UNCHANGED <<library, earlier>>
    /\ UNCHANGED outsideValidate

NextRegister ==
    \/ InvokeRegister
    \/ \E c \in 1..3 : RunItem(c)
    \/ Respond

SpecRegister == Init /\ [][NextRegister]_vars

RouteSchemas == {"tagSchema", "vocabSchema", "paginationSchema", "changePasswordSchema"}

\* the middleware of a route that stores a tag or a vocabulary, lists a page
\* or changes a password
InvokeRoute ==
    /\ pc = "idle"
    /\ \E name \in RouteSchemas : \E request \in Requests(name) : Start(name, request)
    /\ UNCHANGED <<library, earlier>>
    /\ UNCHANGED outsideValidate

\* the runs with nothing to do come first; the others take their steps in any order
NextRoute ==
    \/ InvokeRoute
    \/ RunIdleChains
    \/ \E c \in 1..Len(vocabSchema) : idleChains = {} /\ RunItem(c)
    \/ Respond

SpecRoute == Init /\ [][NextRoute]_vars

InitRate ==
    /\ ValidateUnused
    /\ UUIDUnused
    /\ ProcessUnused
    /\ sanitizePc = "unused"
    /\ input = Undef
    /\ sanitized = Undef
    /\ apiUsage = {}
    /\ ratePc = "idle"
    /\ rateArgs = NoRateArgs
    /\ rateRet = TRUE
    /\ now = 0
    /\ TablesAre(EmptyTables)

NextRate ==
    \/ InsertApiUsage
    \/ \E row \in apiUsage : UpdateApiUsage(row)
    \/ CallCheckRateLimit
    \/ RateTick

SpecRate == InitRate /\ [][NextRate]_vars

InitSanitize ==
    /\ ValidateUnused
    /\ UUIDUnused
    /\ ProcessUnused
    /\ sanitizePc = "input"
    /\ input \in SanitizeArgs
    /\ sanitized = Undef
    /\ RateUnused
    /\ now = 0
    /\ TablesAre(EmptyTables)

NextSanitize ==
    \/ CallSanitizeInput
    \/ CallSanitizeInputAgain

SpecSanitize == InitSanitize /\ [][NextSanitize]_vars

\* the server process: started in some environment, it initialises the database
\* and serves requests until it exits
InitServer ==
    /\ library \in {6, 7}
    /\ pc = "idle"
    /\ schema = "none"
    /\ sent = NoRequest
    /\ req = NoRequest
    /\ inst = <<>>
    /\ pos = <<>>
    /\ ctxErrors = <<>>
    /\ contexts = <<>>
    /\ nextCalls = 0
    /\ res = NoResponse
    /\ earlier = NoEarlier
    /\ peer = NoPeer
    /\ UUIDUnused
    /\ nodeEnv \in NodeEnvs
    /\ exitCode = NoExit
    /\ uncaught = 0
    /\ dbPc = "start"
    /\ dbRet = FALSE
    /\ batches = 0
    /\ dbError = NoDbError
    /\ UtilitiesUnused
    /\ now = 0
    /\ TablesAre(EmptyTables)

NextServer ==
    \/ InitDatabaseConnect
    \/ InitDatabaseBatch
    \/ UncaughtException
    \/ Running /\ InvokeShared
    \/ Running /\ \E c \in 1..2 : RunItem(c)
    \/ Running /\ Respond
    \/ Running /\ Resubmit

SpecServer == InitServer /\ [][NextServer]_vars

-----------------------------------------------------------------------------
(* Vocabulary of the properties *)

HexDigits == <<"0", "1", "2", "3", "4", "5", "6", "7", "8", "9",
               "a", "b", "c", "d", "e", "f">>
HexCapitals == <<"0", "1", "2", "3", "4", "5", "6", "7", "8", "9",
                 "A", "B", "C", "D", "E", "F">>
IsHexDigit(c) == \E h \in 1..16 : c = HexDigits[h] \/ c = HexCapitals[h]
HexValue(c) == CHOOSE h \in 0..15 : c = HexDigits[h + 1] \/ c = HexCapitals[h + 1]

\* 8-4-4-4-12 hexadecimal digits, version nibble 4, variant nibble 8, 9, a or b
WellFormedV4(v) ==
    /\ v.t = "string"
    /\ Len(v.s) = 36
    /\ {i \in 1..36 : v.s[i] = "-"} = {9, 14, 19, 24}
    /\ \A i \in (1..36) \ {9, 14, 19, 24} : IsHexDigit(v.s[i])
    /\ HexValue(v.s[15]) = 4
    /\ HexValue(v.s[20]) \in 8..11

\* the decimal numerals of an integer k: optional sign, leading zeroes allowed
Numerals(k) ==
    {sign \o Rep("0", z) \o NatToStr(Abs(k)) :
        sign \in (IF k < 0 THEN {<<"-">>}
                  ELSE IF k = 0 THEN {<<>>, <<"+">>, <<"-">>}
                  ELSE {<<>>, <<"+">>}),
        z \in 0..(MaxStrLen + 1)}

\* the value is the integer k, as a number or as a numeric string
Denotes(v, k) ==
    \/ v = Num(k)
    \/ v.t = "string" /\ v.s \in Numerals(k)

Rejected == nextCalls = 0 /\ res.jsonCalls = 1 /\ res.statusCode = 400
Accepted == nextCalls = 1 /\ res = NoResponse

ReviewDone == schema = "reviewSchema" /\ pc = "done"
SentQuality == Get(sent.body, "quality")
SentVocabularyId == Get(sent.body, "vocabularyId")

-----------------------------------------------------------------------------
(* Properties *)

\* C1: a review submission whose quality is not an integer, or is an integer
\* outside 0..5, is rejected whatever its vocabularyId: next() is not called
\* and a 400 response is sent.
C1_NonIntegerQualityRejected ==
    (ReviewDone /\ ~\E k \in QualityMin..QualityMax : Denotes(SentQuality, k))
        => Rejected

\* C2: a review submission with quality 0, 1, 2, 3, 4 or 5 and a well-formed
\* version-4 vocabularyId is accepted: next() is called and no response is sent.
C2_ValidReviewAccepted ==
    (ReviewDone /\ (\E k \in QualityMin..QualityMax : SentQuality = Num(k))
                /\ WellFormedV4(SentVocabularyId))
        => Accepted

C2_Witness ==
    ReviewDone /\ SentQuality = Num(0) /\ WellFormedV4(SentVocabularyId) /\ Accepted

\* C3: isValidUUID returns true exactly for the strings of 8-4-4-4-12
\* hexadecimal digits with version nibble 4 and variant nibble 8, 9, a or b,
\* and false for every other string and for every value that is not a string.
C3_UUIDExactlyV4 ==
    uuidPc = "returned" => (uuidRet <=> WellFormedV4(uuidArg))

C3_Witness ==
    /\ uuidPc = "returned"
    /\ uuidEdits = 1
    /\ uuidArg.t = "string"
    /\ Len(uuidArg.s) = 36
    /\ uuidArg.s[20] = "C"
    /\ ~uuidRet

BatchDone == schema = "batchReviewSchema" /\ pc = "done"
SentReviews == Get(sent.body, "reviews")
Details == IF res.jsonCalls > 0 THEN res.body.details ELSE <<>>
HasErrorOn(path) == \E k \in 1..Len(Details) : Details[k].field = path
Field(name) == Path(name, NoIndex, "")
SizeMessage == "Must provide 1-50 reviews for batch submission"
HasSizeError ==
    \E k \in 1..Len(Details) :
        Details[k].field = Field("reviews") /\ Details[k].message = SizeMessage

\* C4: a batch whose reviews array is empty or has more than 50 elements is
\* rejected, and an array of 1 to 50 elements gets no size error.
C4_BatchSize ==
    (BatchDone /\ SentReviews.t = "array") =>
        IF Len(SentReviews.a) = 0 \/ Len(SentReviews.a) > 50
        THEN Rejected /\ HasSizeError
        ELSE ~HasSizeError

C4_Witness ==
    /\ BatchDone
    /\ SentReviews.t = "array"
    /\ Len(SentReviews.a) = 50
    /\ Accepted

\* the payload, submitted alone, is accepted by validate(reviewSchema)
AcceptedAlone(payload) ==
    \A c \in 1..Len(reviewSchema) :
        chainErrors(reviewSchema[c], reviewSchema[c].items,
                    Get(payload, reviewSchema[c].field)) = <<>>

\* C5: a batch of 1 to 50 items is accepted if and only if every item,
\* submitted alone, is accepted by validate(reviewSchema).
C5_BatchSameAsSingle ==
    (BatchDone /\ SentReviews.t = "array" /\ Len(SentReviews.a) \in 1..50) =>
        (Accepted <=> \A i \in 1..Len(SentReviews.a) : AcceptedAlone(SentReviews.a[i]))

C5_Witness ==
    /\ BatchDone
    /\ SentReviews.t = "array"
    /\ Len(SentReviews.a) = 2
    /\ Get(SentReviews.a[1], "quality") = Str(<<"5">>)
    /\ Get(SentReviews.a[2], "quality") = Num(6)
    /\ Rejected

\* C6: when validate(reviewSchema) accepts, the payload handed on has quality
\* as the integer that was submitted (a numeric string becomes that integer)
\* and every other field, vocabularyId included, as submitted.
C6_AcceptedPayload ==
    (ReviewDone /\ Accepted) =>
        /\ \E k \in QualityMin..QualityMax :
              Denotes(SentQuality, k) /\ Get(req.body, "quality") = Num(k)
        /\ DOMAIN req.body.f = DOMAIN sent.body.f
        /\ \A f \in (DOMAIN sent.body.f) \ {"quality"} : req.body.f[f] = sent.body.f[f]
        /\ req.query = sent.query
        /\ req.params = sent.params

\* an optional sign and one or more decimal digits
IsNumeral(str) ==
    \E sign \in {<<>>, <<"+">>, <<"-">>} :
        /\ Len(str) > Len(sign)
        /\ SubSeq(str, 1, Len(sign)) = sign
        /\ \A i \in (Len(sign) + 1)..Len(str) : str[i] \in DigitSet

\* the value is an integer outside 0..5
OutOfRange(v) ==
    \/ v.t = "number" /\ v.n % 10 = 0 /\ (v.n \div 10) \notin QualityMin..QualityMax
    \/ v.t = "string" /\ IsNumeral(v.s) /\ NumberOf(v.s) \notin QualityMin..QualityMax

InRange(v) == \E k \in QualityMin..QualityMax : Denotes(v, k)

\* C7: when only vocabularyId is invalid, or only quality is out of range, the
\* rejection has an error on the offending field and none on the other field.
C7_ErrorOnOffendingField ==
    ReviewDone =>
        /\ (~WellFormedV4(SentVocabularyId) /\ InRange(SentQuality)) =>
              Rejected /\ HasErrorOn(Field("vocabularyId")) /\ ~HasErrorOn(Field("quality"))
        /\ (WellFormedV4(SentVocabularyId) /\ OutOfRange(SentQuality)) =>
              Rejected /\ HasErrorOn(Field("quality")) /\ ~HasErrorOn(Field("vocabularyId"))

C7_Witness ==
    /\ ReviewDone
    /\ SentVocabularyId = Str(NotAUUID)
    /\ SentQuality = Num(3)
    /\ Rejected
    /\ HasErrorOn(Field("vocabularyId"))

ErrorPath(e) ==
    IF "path" \in DOMAIN e THEN e.path
    ELSE IF "param" \in DOMAIN e THEN e.param
    ELSE Undef

HasError(path, message) ==
    \E k \in 1..Len(Details) : Details[k].field = path /\ Details[k].message = message

\* C8: every chain of the schema has run to its end when validate decides, and
\* a rejection lists every violation found by any chain: each failing field
\* has an entry, with one entry for each constraint it violates.
C8_AllViolationsReported ==
    pc = "done" =>
        /\ \A c \in 1..Len(Chains(schema)) : pos[c] = Len(Chains(schema)[c].items)
        /\ \A c \in 1..Len(Chains(schema)) : \A k \in 1..Len(ctxErrors[c]) :
              HasError(ErrorPath(ctxErrors[c][k]), ctxErrors[c][k].msg)
        /\ Len(Details) = Len(Flatten(ctxErrors))
        /\ (schema = "reviewSchema" /\ stringify(SentQuality) = <<>> /\ SentQuality.t # "array"
              /\ ~WellFormedV4(SentVocabularyId)) =>
              /\ HasError(Field("quality"), "Quality rating is required")
              /\ HasError(Field("quality"),
                          "Quality must be an integer between 0-5 (0=forgot, 5=perfect recall)")
              /\ HasError(Field("vocabularyId"), "Invalid vocabulary ID format")
        /\ (schema = "batchReviewSchema" /\ SentReviews.t = "array") =>
              \A i \in 1..Len(SentReviews.a) :
                 /\ ~WellFormedV4(Get(SentReviews.a[i], "vocabularyId"))
                       => HasErrorOn(Path("reviews", i - 1, "vocabularyId"))
                 /\ OutOfRange(Get(SentReviews.a[i], "quality"))
                       => HasErrorOn(Path("reviews", i - 1, "quality"))

C8_Witness ==
    /\ ReviewDone
    /\ SentQuality = Undef
    /\ SentVocabularyId = Str(NotAUUID)
    /\ Len(Details) = 3
    /\ Details[1].field = Field("vocabularyId")

NoError == \A c \in 1..Len(ctxErrors) : ctxErrors[c] = <<>>

\* C9: one invocation of the middleware ends in exactly one outcome, once:
\* next() when and only when no chain reported an error, else the 400
\* response; before the decision neither has happened.
C9_ExactlyOneOutcome ==
    /\ pc = "done" =>
          /\ nextCalls + res.jsonCalls = 1
          /\ nextCalls = 1 <=> NoError
          /\ res.jsonCalls = 1 => res.statusCode = 400
    /\ pc # "done" => nextCalls = 0 /\ res = NoResponse

C9_Witness == pc = "done" /\ nextCalls = 1 /\ res.jsonCalls = 0 /\ schema = "uuidParamSchema"

\* the request location that the schema declares for the field of a path
DeclaredLocation(path) ==
    LET c == CHOOSE c \in 1..Len(Chains(schema)) :
                 Chains(schema)[c].field = path.field /\ Chains(schema)[c].sub = path.sub
    IN Token(Chains(schema)[c].location)

C11_RevalidationIdempotent ==
    (ReviewDone /\ earlier.outcome = "accepted") => (Accepted /\ req = sent)

C11_Witness ==
    /\ ReviewDone
    /\ earlier.outcome = "accepted"
    /\ Get(earlier.sent.body, "quality") = Str(<<"+", "5">>)
    /\ SentQuality = Num(5)
    /\ Accepted
    /\ req = sent

SamePair(a, b) == a.userId = b.userId /\ a.vocabularyId = b.vocabularyId

\* C12: whatever statements run, the reviews table has at most one row for a
\* (userId, vocabularyId) pair, and an INSERT for a pair that has a row is
\* refused with a uniqueness error and changes no row.
C12_OneReviewPerPair ==
    [][/\ \A a, b \in reviews' : SamePair(a, b) => a = b
       /\ \A userId \in UserIds : \A vocabularyId \in VocabularyIds :
             (/\ \E r \in reviews : r.userId = userId /\ r.vocabularyId = vocabularyId
              /\ InsertReview(userId, vocabularyId))
             => (reviews' = reviews /\ sqlError'.number = 2627)]_vars

C12_Witness ==
    /\ sqlError = Error(2627, "UQ_reviews_userId_vocabularyId")
    /\ Cardinality(reviews) = 1

RowsOf(rows, userId) == {r \in rows : r.userId = userId}

\* C13: DELETE FROM users for an existing user succeeds in every state and
\* leaves no vocabulary, tag or review of that user.
C13_DeleteUserCascades ==
    [][\A row \in users :
          DeleteUser(row) =>
             /\ sqlError' = NoSqlError
             /\ row \notin users'
             /\ RowsOf(vocabularies', row.id) = {}
             /\ RowsOf(tags', row.id) = {}
             /\ RowsOf(reviews', row.id) = {}]_vars

\* C14: every stored review has quality NULL or an integer in 0..5.
C14_StoredQualityInRange ==
    \A r \in reviews :
        r.quality = Null \/ \E k \in QualityMin..QualityMax : r.quality = Num(k)

\* new while the pair has no row, due from nextReview on, scheduled before
StateOf(rows, time, userId, vocabularyId) ==
    LET own == {r \in rows : r.userId = userId /\ r.vocabularyId = vocabularyId}
    IN IF own = {} THEN "new"
       ELSE IF \E r \in own : time >= r.nextReview THEN "due"
       ELSE "scheduled"

C16_ValidateLeavesStorage ==
    [][/\ reviews' = reviews
       /\ UNCHANGED <<users, vocabularies, tags, vocabulariesTags, sqlError>>]_vars

C16_Witness ==
    /\ ReviewDone
    /\ Accepted
    /\ SentQuality = Num(5)
    /\ reviews = SeededTables.reviews
    /\ \E r \in reviews : r.quality = Num(4) /\ r.nextReview = 1

\* the error records that a request gets when it is validated alone
AloneDetails(name, request) ==
    UNION {LET chain == Chains(name)[c]
               errs == chainErrors(chain, chain.items, Get(request[chain.location], chain.field))
           IN {formatError(fieldError(chain, Field(chain.field), errs[k])) : k \in 1..Len(errs)} :
           c \in 1..Len(Chains(name))}

\* the request that validate leaves when it runs alone
RECURSIVE AloneRequest(_, _, _)
AloneRequest(name, request, c) ==
    IF c = 0 THEN request
    ELSE LET chain == Chains(name)[c]
             before == AloneRequest(name, request, c - 1)
             old == Get(before[chain.location], chain.field)
             new == chainValue(chain, chain.items, old)
         IN IF new = old THEN before
            ELSE [before EXCEPT ![chain.location] = SetField(@, chain.field, new)]

\* the invocation has ended as it ends alone: next() once and no response, or
\* one 400 response with the same set of records; and the request is as left alone
EndsAsAlone(s) ==
    LET alone == AloneDetails(schema, s.sent)
        details == IF s.res.jsonCalls > 0 THEN s.res.body.details ELSE <<>>
    IN /\ {details[k] : k \in 1..Len(details)} = alone
       /\ Len(details) = Cardinality(alone)
       /\ IF alone = {} THEN s.nextCalls = 1 /\ s.res = NoResponse
          ELSE s.nextCalls = 0 /\ s.res.jsonCalls = 1 /\ s.res.statusCode = 400
       /\ s.req = AloneRequest(schema, s.sent, Len(Chains(schema)))

\* C17: of two invocations of one middleware on different requests, with
\* their steps interleaved in any order, each ends as it ends alone: the same
\* decision, the same set of error records and the same coerced request.
C17_NoInterference ==
    /\ pc = "done" =>
          EndsAsAlone([sent |-> sent, req |-> req, nextCalls |-> nextCalls, res |-> res])
    /\ peer.pc = "done" => EndsAsAlone(peer)

\* both ended; the first was accepted with its quality coerced while the
\* second, started before the first ended its chains, was rejected
C17_Witness ==
    /\ pc = "done"
    /\ peer.pc = "done"
    /\ schema = "reviewSchema"
    /\ Accepted
    /\ SentQuality = Str(<<"5">>)
    /\ Get(req.body, "quality") = Num(5)
    /\ peer.nextCalls = 0
    /\ Len(peer.res.body.details) = 2
    /\ peer.contexts = <<2, 1>>
    /\ contexts = <<1, 2>>

\* the request sent is one that validate accepts when it comes alone
Correct == AloneDetails(schema, sent) = {}

\* C18 as claimed: the process never exits, whatever fails, and a corrected
\* request sent after a rejection is accepted.
C18_NoErrorPathFatal ==
    /\ Running
    /\ (pc = "done" /\ earlier.outcome = "rejected" /\ Correct) => Accepted

\* C18 as amended: a rejected request and a failed initDatabase leave the
\* process running; an uncaught error that the logger handles ends it with
\* exit code 1 in production and leaves it running in every other
\* environment; a corrected request sent after a rejection is accepted.
C18_FatalOnlyInProduction ==
    /\ ~Running <=> (nodeEnv = "production" /\ uncaught > 0)
    /\ ~Running => exitCode = 1
    /\ (pc = "done" /\ earlier.outcome = "rejected" /\ Correct) => Accepted

C18_Witness ==
    /\ nodeEnv = "development"
    /\ dbPc = "returned"
    /\ dbRet = FALSE
    /\ batches = 1
    /\ uncaught = 1
    /\ Running
    /\ pc = "done"
    /\ earlier.outcome = "rejected"
    /\ Get(earlier.sent.body, "quality") = Num(QualityMax + 1)
    /\ SentQuality = Str(<<"5">>)
    /\ Accepted

\* the entities of the claim: '/' is not among the replaced characters
ClaimedEscape(char) ==
    CASE char = "&" -> <<"&", "a", "m", "p", ";">>
      [] char = "<" -> <<"&", "l", "t", ";">>
      [] char = ">" -> <<"&", "g", "t", ";">>
      [] char = "\"" -> <<"&", "q", "u", "o", "t", ";">>
      [] char = "'" -> <<"&", "#", "x", "2", "7", ";">>
      [] OTHER -> <<char>>

\* '&lt;script&gt;alert(&quot;XSS&quot;)&lt;/script&gt;', the documented output
DocSanitized ==
    <<"&", "l", "t", ";", "s", "c", "r", "i", "p", "t", "&", "g", "t", ";",
      "a", "l", "e", "r", "t", "(", "&", "q", "u", "o", "t", ";", "X", "S", "S",
      "&", "q", "u", "o", "t", ";", ")",
      "&", "l", "t", ";", "/", "s", "c", "r", "i", "p", "t", "&", "g", "t", ";">>

\* C19: sanitizeInput returns a non-string input unchanged and, of a string,
\* the string with each of & < > " ' replaced by its entity and every other
\* character, '/' included, kept; the documented input gives the documented output.
C19_SanitizeInputEscapes ==
    sanitizePc = "returned" =>
        /\ input.t /= "string" => sanitized = input
        /\ input.t = "string" =>
              sanitized = Str(Flatten([i \in 1..Len(input.s) |-> ClaimedEscape(input.s[i])]))
        /\ input = Str(DocXSS) => sanitized = Str(DocSanitized)

RegisterDone == schema = "registerSchema" /\ pc = "done"
SentEmail == Get(sent.body, "email")
SentPassword == Get(sent.body, "password")
SentName == Get(sent.body, "name")

\* a password of 8 to 128 characters with a lowercase letter, an uppercase
\* letter, a digit and a special character, one of @$!%*?& at least, that is
\* not in the weak-password list
StrongEnough(password) ==
    /\ password.t = "string"
    /\ Len(password.s) >= PasswordMin
    /\ Len(password.s) <= PasswordMax
    /\ \E i \in 1..Len(password.s) : password.s[i] \in LowerCase
    /\ \E i \in 1..Len(password.s) : password.s[i] \in UpperCase
    /\ \E i \in 1..Len(password.s) : password.s[i] \in DigitSet
    /\ \E i \in 1..Len(password.s) : password.s[i] \in {"@", "$", "!", "%", "*", "?", "&"}
    /\ password.s \notin {Password123, Digits12345678, Qwerty123, Admin123}

\* C20: with a valid email, validate(registerSchema) accepts every password of
\* 8 to 128 characters that has a lowercase letter, an uppercase letter, a
\* digit and a special character and is not a listed weak password, and
\* rejects every password that lacks one of these; a name that is null,
\* undefined or empty causes no rejection.
C20_RegisterPasswordAndName ==
    (RegisterDone /\ SentEmail = Str(UserAtExampleCom)) =>
        /\ (SentName \in {Str(JohnDoe), Undef, Null, Str(<<>>)} /\ StrongEnough(SentPassword))
              => Accepted
        /\ (SentPassword.t # "array" /\ ~StrongEnough(SentPassword))
              => (Rejected /\ HasErrorOn(Field("password")))
        /\ SentName \in {Undef, Null, Str(<<>>)} => ~HasErrorOn(Field("name"))

\* the uses of an action that the apiUsage rows record since a time
Performed(action, since) ==
    LET rows == {r \in apiUsage : r.endpoint = action /\ r.createdAt >= since}
        RECURSIVE Sum(_)
        Sum(rs) == IF rs = {} THEN 0
                   ELSE LET r == CHOOSE x \in rs : TRUE IN r.count + Sum(rs \ {r})
    IN Sum(rows)

\* C21: checkRateLimit returns false when the apiUsage rows record at least
\* limit uses of the action within the last windowMs, and true when they
\* record fewer.
C21_RateLimitFollowsUsage ==
    ratePc = "returned" =>
        (rateRet <=> Performed(rateArgs.action, now - rateArgs.windowMs) < rateArgs.limit)

-----------------------------------------------------------------------------
(* Normalisation by the tag and vocabulary schemas *)

TagDone == schema = "tagSchema" /\ pc = "done"
VocabDone == schema = "vocabSchema" /\ pc = "done"
SentColor == Get(sent.body, "color")
SentWord == Get(sent.body, "word")

\* what the chain's first item, trim, makes of a value that was sent
Trimmed(v) == trim(stringify(v))

\* C22: after validate(tagSchema) accepts a request, the name in the request
\* body is the name that was sent in upper case and the color, when one was
\* sent, the color that was sent in upper case; after validate(vocabSchema)
\* accepts, the word in the request body is the word that was sent with its
\* first letter capitalised and the rest in lower case.
C22_NormalisedOnAccept ==
    /\ (TagDone /\ Accepted) =>
          /\ Get(req.body, "name") = Str(toUpperCase(Trimmed(SentName)))
          /\ Truthy(SentColor) =>
                Get(req.body, "color") = Str(toUpperCase(Trimmed(SentColor)))
    /\ (VocabDone /\ Accepted) =>
          Get(req.body, "word") = Str(capitalize(Trimmed(SentWord)))

-----------------------------------------------------------------------------
(* The search term *)

SearchDone == schema = "searchSchema" /\ pc = "done"
SentQ == Get(sent.query, "q")

\* a search term of 1 to 100 characters after trimming
SearchTerm(v) ==
    /\ v.t = "string"
    /\ Len(trim(v.s)) >= SearchMin
    /\ Len(trim(v.s)) <= SearchMax

\* C23: validate(searchSchema) accepts every search term q of 1 to 100
\* characters after trimming and leaves it in the request query trimmed and
\* without the characters < and >; a term made only of < and > is accepted.
C23_SearchTermSanitised ==
    (SearchDone /\ SearchTerm(SentQ)) =>
        /\ Accepted
        /\ Get(req.query, "q") = Str(removeAngleBrackets(trim(SentQ.s)))

-----------------------------------------------------------------------------
(* Pagination *)

PageDone == schema = "paginationSchema" /\ pc = "done"
SentPage == Get(sent.query, "page")
SentLimit == Get(sent.query, "limit")
SentSortOrder == Get(sent.query, "sortOrder")

\* an integer from min up to max; a number is held in tenths
IsInteger(v, min, max) ==
    /\ v.t = "number"
    /\ v.n % 10 = 0
    /\ v.n >= 10 * min
    /\ (max = NoBound \/ v.n <= 10 * max)

\* C24: after validate(paginationSchema) accepts a request, the request query
\* holds page = 1 when page was omitted, limit = 20 when limit was omitted and
\* sortOrder = 'desc' when sortOrder was omitted; a page that was supplied is
\* an integer >= 1 and a limit that was supplied an integer in 1..100.
C24_PaginationDefaults ==
    (PageDone /\ Accepted) =>
        /\ SentPage = Undef => Get(req.query, "page") = Num(PageDefault)
        /\ SentLimit = Undef => Get(req.query, "limit") = Num(LimitDefault)
        /\ SentSortOrder = Undef => Get(req.query, "sortOrder") = Str(Desc)
        /\ SentPage # Undef => IsInteger(Get(req.query, "page"), PageMin, NoBound)
        /\ SentLimit # Undef => IsInteger(Get(req.query, "limit"), LimitMin, LimitMax)

-----------------------------------------------------------------------------
(* The change of a password *)

ChangeDone == schema = "changePasswordSchema" /\ pc = "done"
SentCurrent == Get(sent.body, "currentPassword")
SentNew == Get(sent.body, "newPassword")

\* a password of 8 to 128 characters with a lowercase letter, an uppercase
\* letter and a digit
MeetsStrengthRules(password) ==
    /\ password.t = "string"
    /\ Len(password.s) >= PasswordMin
    /\ Len(password.s) <= PasswordMax
    /\ \E i \in 1..Len(password.s) : password.s[i] \in LowerCase
    /\ \E i \in 1..Len(password.s) : password.s[i] \in UpperCase
    /\ \E i \in 1..Len(password.s) : password.s[i] \in DigitSet

\* C25: validate(changePasswordSchema) rejects every request whose newPassword
\* equals its currentPassword, and accepts a request whose currentPassword is
\* a non-empty string and whose newPassword is another password that meets
\* the strength rules.
C25_NewPasswordDiffers ==
    ChangeDone =>
        /\ SentNew = SentCurrent => Rejected
        /\ (/\ SentCurrent.t = "string"
            /\ SentCurrent.s # <<>>
            /\ SentNew # SentCurrent
            /\ MeetsStrengthRules(SentNew)) => Accepted

-----------------------------------------------------------------------------
(* initDatabase *)

\* C26: initDatabase never throws; it returns true when the connection and
\* the script both succeeded and false when the connection failed or the
\* script failed at a statement, and the script is not executed after a
\* connection that failed.
C26_InitDatabaseReports ==
    /\ dbPc # "threw"
    /\ dbPc = "returned" => (dbRet <=> dbError = NoDbError /\ batches = 1)
    /\ dbError = ConnectionError => (dbPc = "returned" /\ ~dbRet /\ batches = 0)
    /\ dbError.at = "batch" => (dbPc = "returned" /\ ~dbRet)

\* the script has failed at its last statement and initDatabase has returned false
C26_Witness ==
    /\ dbPc = "returned"
    /\ dbError = RequestError(MaxStatement)
    /\ batches = 1
    /\ ~dbRet

====
